---- MODULE Spec2Model ----
(***************************************************************************)
(* PromptForge: the prompt optimization engine of src/prompt_optimizer.py. *)
(*                                                                         *)
(* Several state machines share this module:                               *)
(*   SpecRetry  PromptOptimizer._call_llm, the retry/backoff wrapper       *)
(*   SpecEval   PromptOptimizer.test_prompt_with_data, the evaluator with  *)
(*              its worker pool, against a deterministic gateway           *)
(*   Spec       PromptOptimizer.create_golden_prompt, the optimization     *)
(*              loop, against a gateway that may answer differently on     *)
(*              every call                                                 *)
(*   SpecStage  the five stage operations and the provider and model each  *)
(*              of them calls the gateway with                             *)
(*   SpecMatch  PromptOptimizer.check_output_match on arbitrary texts      *)
(* Texts are sequences of one-character strings.                           *)
(***************************************************************************)
EXTENDS Integers, Sequences, FiniteSets, TLC

VARIABLES
    \* ---- _call_llm
    rt_cfg,          \* performance config read by _call_llm
    rt_pc,           \* "idle" | "try" | "returned" | "raised"
    attempt,         \* loop variable of `for attempt in range(max_retries + 1)`
    last_exception,  \* local last_exception
    rt_result,       \* the value returned, or the exception raised
    gw_log,          \* outcomes of the calls made to get_llm_response, in order
    sleeps,          \* arguments of the time.sleep calls, in order
    reports,         \* the retry lines printed: <<attempt + 1, delay>>
    \* ---- test_prompt_with_data
    ev_cfg,          \* performance config read by the evaluator
    test_data,       \* the dataset: sequence of <<input_data, expected_output>>
    gateway,         \* deterministic gateway: input -> outcome of generate_answer
    ev_pc,           \* "call" | "submit" | "collect" | "returned"
    batch_idx,       \* index of the batch being processed
    futures,         \* case index -> [st, res] for the tasks of the current batch
    successful_matches,
    failed_cases,
    ev_result,       \* the tuple returned by test_prompt_with_data
    ev_path,         \* "none" | "sequential" | "parallel" | "fallback"
    \* ---- create_golden_prompt
    lp,              \* the locals of create_golden_prompt, one record
    \* ---- the five stage operations and their gateway calls
    st,              \* the models config and the gateway call an operation made
    \* ---- check_output_match
    cm,              \* the two arguments and the value returned
    \* ---- _extract_prompt_from_response
    xp,              \* the response and the prompt text extracted from it
    \* ---- one stage operation: template, gateway calls, what the caller does
    oper,            \* the operation called, its template and how it ended
    \* ---- calculate_quality_score
    qs               \* the position in calculate_quality_score and its metrics

retryVars == <<rt_cfg, rt_pc, attempt, last_exception, rt_result, gw_log, sleeps, reports>>
evalVars == <<ev_cfg, test_data, gateway, ev_pc, batch_idx, futures,
              successful_matches, failed_cases, ev_result, ev_path>>
vars == <<rt_cfg, rt_pc, attempt, last_exception, rt_result, gw_log, sleeps, reports,
          ev_cfg, test_data, gateway, ev_pc, batch_idx, futures,
          successful_matches, failed_cases, ev_result, ev_path, lp, st, cm, xp, oper, qs>>
auxVars == <<st, cm, xp, oper, qs>>

-----------------------------------------------------------------------------
(* Bounds of the model *)

MaxRetries == 3
MaxDelay == 2
MaxCases == 4
MaxWorkers == 2
MaxBatch == 3
MaxIter == 3
MaxLoopCases == 2
MaxTextLen == 2

-----------------------------------------------------------------------------
(* Texts *)

Whitespace == {" ", "\t", "\n"}

\* str.lower on one character of the model's alphabet
LowerChar(c) ==
    CASE c = "A" -> "a" [] c = "B" -> "b" [] c = "H" -> "h" [] c = "I" -> "i"
      [] c = "L" -> "l" [] c = "O" -> "o" [] c = "P" -> "p" [] c = "R" -> "r"
      [] c = "S" -> "s" [] c = "T" -> "t" [] c = "M" -> "m" [] c = "E" -> "e"
      [] c = "N" -> "n" [] c = "D" -> "d" [] OTHER -> c

Lower(s) == [i \in 1..Len(s) |-> LowerChar(s[i])]

RECURSIVE LStrip(_)
LStrip(s) == IF s # <<>> /\ Head(s) \in Whitespace THEN LStrip(Tail(s)) ELSE s

RECURSIVE RStrip(_)
RStrip(s) ==
    IF s # <<>> /\ s[Len(s)] \in Whitespace THEN RStrip(SubSeq(s, 1, Len(s) - 1)) ELSE s

\* str.strip
Strip(s) == RStrip(LStrip(s))

\* check_output_match
check_output_match(actual_output, expected_output) ==
    Lower(Strip(actual_output)) = Lower(Strip(expected_output))

\* f"Error: {str(e)}"
ErrorPrefix == <<"E", "r", "r", "o", "r", ":", " ">>
ErrorText(msg) == ErrorPrefix \o msg

T4 == <<"4">>
TParis == <<"P", "a", "r", "i", "s">>
TParisLoose == <<" ", "P", "A", "R", "I", "S", "\n">>
THola == <<"h", "o", "l", "a">>
TBoom == <<"b", "o", "o", "m">>
TRate == <<"4", "2", "9">>

\* what one call of the gateway, or of generate_answer, can come to
Ok(text) == [kind |-> "ok", text |-> text]
Fail(msg) == [kind |-> "fail", text |-> msg]
AnswerTexts == {T4, TParisLoose, THola}
ErrorTexts == {TBoom, TRate}

-----------------------------------------------------------------------------
(* _call_llm: bounded retry with backoff around get_llm_response *)

RECURSIVE Pow2(_)
Pow2(n) == IF n = 0 THEN 1 ELSE 2 * Pow2(n - 1)

\* mutant: the exponent is off by one
RetryDelayOffByOne(cfg, a) ==
    cfg.retry_delay * (IF cfg.exponential_backoff THEN Pow2(a + 1) ELSE 1)

\* delay = retry_delay * (2 ** attempt if exponential_backoff else 1)
RetryDelay(cfg, a) ==
    cfg.retry_delay * (IF cfg.exponential_backoff THEN Pow2(a) ELSE 1)

\* mutant: the guard gives up one attempt early
AttemptsRemainShort(cfg, a) == a + 1 < cfg.max_retries

\* the guard `if attempt < max_retries` of the except branch
AttemptsRemain(cfg, a) == a < cfg.max_retries

RetryConfigs ==
    [max_retries : 0..MaxRetries, retry_delay : 0..MaxDelay, exponential_backoff : BOOLEAN]

RetryIdle ==
    /\ rt_cfg = [max_retries |-> 0, retry_delay |-> 0, exponential_backoff |-> FALSE]
    /\ rt_pc = "idle"
    /\ attempt = 0
    /\ last_exception = <<>>
    /\ rt_result = <<>>
    /\ gw_log = <<>>
    /\ sleeps = <<>>
    /\ reports = <<>>

\* entry of _call_llm: the configuration is read, the loop starts at attempt 0
RetryInit ==
    /\ rt_cfg \in RetryConfigs
    /\ rt_pc = "try"
    /\ attempt = 0
    /\ last_exception = <<>>
    /\ rt_result = <<>>
    /\ gw_log = <<>>
    /\ sleeps = <<>>
    /\ reports = <<>>

\* mutant: a successful call is reported and slept on like a failed one
GatewayReturnsAfterSleep ==
    /\ rt_pc = "try"
    /\ \E t \in AnswerTexts :
        /\ gw_log' = Append(gw_log, Ok(t))
        /\ rt_result' = Ok(t)
    /\ rt_pc' = "returned"
    /\ reports' = Append(reports, <<attempt + 1, RetryDelay(rt_cfg, attempt)>>)
    /\ sleeps' = Append(sleeps, RetryDelay(rt_cfg, attempt))
    /\ UNCHANGED <<rt_cfg, attempt, last_exception>>
    /\ UNCHANGED <<evalVars, lp, auxVars>>

\* get_llm_response returns: _call_llm returns that text at once
GatewayReturns ==
    /\ rt_pc = "try"
    /\ \E t \in AnswerTexts :
        /\ gw_log' = Append(gw_log, Ok(t))
        /\ rt_result' = Ok(t)
    /\ rt_pc' = "returned"
    /\ UNCHANGED <<rt_cfg, attempt, last_exception, sleeps, reports>>
    /\ UNCHANGED <<evalVars, lp, auxVars>>

\* get_llm_response raises and attempts remain: report, sleep, next attempt
GatewayFailsRetry ==
    /\ rt_pc = "try"
    /\ AttemptsRemain(rt_cfg, attempt)
    /\ \E e \in ErrorTexts :
        /\ gw_log' = Append(gw_log, Fail(e))
        /\ last_exception' = e
    /\ reports' = Append(reports, <<attempt + 1, RetryDelay(rt_cfg, attempt)>>)
    /\ sleeps' = Append(sleeps, RetryDelay(rt_cfg, attempt))
    /\ attempt' = attempt + 1
    /\ UNCHANGED <<rt_cfg, rt_pc, rt_result>>
    /\ UNCHANGED <<evalVars, lp, auxVars>>

\* get_llm_response raises on the last attempt: raise last_exception
GatewayFailsFinal ==
    /\ rt_pc = "try"
    /\ ~AttemptsRemain(rt_cfg, attempt)
    /\ \E e \in ErrorTexts :
        /\ gw_log' = Append(gw_log, Fail(e))
        /\ last_exception' = e
        /\ rt_result' = Fail(e)
    /\ rt_pc' = "raised"
    /\ UNCHANGED <<rt_cfg, attempt, sleeps, reports>>
    /\ UNCHANGED <<evalVars, lp, auxVars>>

RetryNext == GatewayReturns \/ GatewayFailsRetry \/ GatewayFailsFinal

-----------------------------------------------------------------------------
(* The evaluator: test_prompt_with_data, _test_single_case, _test_sequential *)

\* the sample rows of the loader: <<input_data, expected_output>>
Pool == << <<<<"q", "1">>, T4>>, <<<<"q", "2">>, TParis>>, <<<<"q", "3">>, THola>> >>
Inputs == {Pool[i][1] : i \in 1..Len(Pool)}

\* a dataset of n rows (rows repeat beyond the pool)
TestData(n) == [i \in 1..n |-> Pool[((i - 1) % Len(Pool)) + 1]]

Outcomes == {Ok(t) : t \in AnswerTexts} \cup {Fail(e) : e \in ErrorTexts}

EvalConfigs ==
    [enable_parallel : BOOLEAN, max_workers : 1..MaxWorkers, batch_size : 1..MaxBatch]

\* generate_answer: the text _call_llm returns, or the exception it raises
generate_answer(gw, input_data) == gw[input_data]

\* mutant: the text of a caught exception is dropped
TestSingleCaseDropsError(gw, input_data, expected_output, case_index) ==
    LET r == generate_answer(gw, input_data) IN
    IF r.kind = "ok"
    THEN <<check_output_match(r.text, expected_output), r.text, case_index>>
    ELSE <<FALSE, <<>>, case_index>>

\* _test_single_case: (is_match, actual_output, case_index); an exception is
\* caught and returned as (False, str(e), case_index)
TestSingleCase(gw, input_data, expected_output, case_index) ==
    LET r == generate_answer(gw, input_data) IN
    IF r.kind = "ok"
    THEN <<check_output_match(r.text, expected_output), r.text, case_index>>
    ELSE <<FALSE, r.text, case_index>>

\* one pass of the loop body of _test_sequential
RECURSIVE SeqLoop(_, _, _, _, _)
SeqLoop(gw, data, i, matches, failed) ==
    IF i > Len(data) THEN <<matches, Len(data), failed>>
    ELSE LET input_data == data[i][1]
             expected_output == data[i][2]
             r == generate_answer(gw, input_data)
         IN  IF r.kind = "ok"
             THEN IF check_output_match(r.text, expected_output)
                  THEN SeqLoop(gw, data, i + 1, matches + 1, failed)
                  ELSE SeqLoop(gw, data, i + 1, matches,
                               Append(failed, <<input_data, expected_output, r.text>>))
             ELSE SeqLoop(gw, data, i + 1, matches,
                          Append(failed, <<input_data, expected_output, ErrorText(r.text)>>))

\* mutant: the failed cases are counted but not kept
TestSequentialForgetsFailed(gw, data) ==
    <<SeqLoop(gw, data, 1, 0, <<>>)[1], Len(data), <<>>>>

\* _test_sequential: (successful_matches, total_tests, failed_cases)
TestSequential(gw, data) == SeqLoop(gw, data, 1, 0, <<>>)

\* `if enable_parallel and total_tests > 3`
ParallelThreshold == 3
UseParallel(cfg, data) == cfg.enable_parallel /\ Len(data) > ParallelThreshold

\* batches = [test_data[i:i + batch_size] for i in range(0, len(test_data), batch_size)]
NumBatches(cfg, data) == (Len(data) + cfg.batch_size - 1) \div cfg.batch_size

\* the case indices (0-based) of batch b: batch_idx * batch_size + i
BatchIndices(cfg, data, b) ==
    {k \in 0..(Len(data) - 1) : k \div cfg.batch_size = b}

\* what the collecting loop does with one completed future
\* mutant: every completed case is counted as a match
CollectMatchesAlways(matches, res) == matches + 1

CollectMatches(matches, res) == IF res[1] THEN matches + 1 ELSE matches
\* mutant: a failed case overwrites the list instead of being appended to it
CollectFailedOverwrite(failed, case, res) ==
    IF res[1] THEN failed ELSE <<<<case[1], case[2], res[2]>>>>

CollectFailed(failed, case, res) ==
    IF res[1] THEN failed ELSE Append(failed, <<case[1], case[2], res[2]>>)

NoResult == <<FALSE, <<>>, 0>>

EvalIdle ==
    /\ ev_cfg = [enable_parallel |-> FALSE, max_workers |-> 1, batch_size |-> 1]
    /\ test_data = <<>>
    /\ gateway = [x \in Inputs |-> Ok(T4)]
    /\ ev_pc = "idle"
    /\ batch_idx = 0
    /\ futures = <<>>
    /\ successful_matches = 0
    /\ failed_cases = <<>>
    /\ ev_result = <<>>
    /\ ev_path = "none"

\* entry of test_prompt_with_data
EvalInit ==
    /\ ev_cfg \in EvalConfigs
    /\ \E n \in 0..MaxCases : test_data = TestData(n)
    /\ gateway \in [Inputs -> Outcomes]
    /\ ev_pc = "call"
    /\ batch_idx = 0
    /\ futures = <<>>
    /\ successful_matches = 0
    /\ failed_cases = <<>>
    /\ ev_result = <<>>
    /\ ev_path = "none"

\* the mode is chosen: the parallel try block is entered
EnterParallel ==
    /\ ev_pc = "call"
    /\ UseParallel(ev_cfg, test_data)
    /\ ev_pc' = "submit"
    /\ ev_path' = "parallel"
    /\ UNCHANGED <<ev_cfg, test_data, gateway, batch_idx, futures,
                   successful_matches, failed_cases, ev_result>>
    /\ UNCHANGED <<retryVars, lp, auxVars>>

\* the mode is chosen: return self._test_sequential(...)
RunSequential ==
    /\ ev_pc = "call"
    /\ ~UseParallel(ev_cfg, test_data)
    /\ ev_result' = TestSequential(gateway, test_data)
    /\ ev_pc' = "returned"
    /\ ev_path' = "sequential"
    /\ UNCHANGED <<ev_cfg, test_data, gateway, batch_idx, futures,
                   successful_matches, failed_cases>>
    /\ UNCHANGED <<retryVars, lp, auxVars>>

\* with ThreadPoolExecutor(...): every case of the batch is submitted
SubmitBatch ==
    /\ ev_pc = "submit"
    /\ futures' = [k \in BatchIndices(ev_cfg, test_data, batch_idx) |->
                      [st |-> "queued", res |-> NoResult]]
    /\ ev_pc' = "collect"
    /\ UNCHANGED <<ev_cfg, test_data, gateway, batch_idx,
                   successful_matches, failed_cases, ev_result, ev_path>>
    /\ UNCHANGED <<retryVars, lp, auxVars>>

\* mutant: the fallback adds its result to what the parallel run had gathered
PoolFailsKeepsPartial ==
    /\ ev_pc = "submit"
    /\ ev_result' = <<successful_matches + TestSequential(gateway, test_data)[1],
                      Len(test_data),
                      failed_cases \o TestSequential(gateway, test_data)[3]>>
    /\ ev_pc' = "returned"
    /\ ev_path' = "fallback"
    /\ UNCHANGED <<ev_cfg, test_data, gateway, batch_idx, futures,
                   successful_matches, failed_cases>>
    /\ UNCHANGED <<retryVars, lp, auxVars>>

\* the pool cannot be created or a task cannot be submitted: the except branch
\* of the parallel block returns self._test_sequential(...)
PoolFails ==
    /\ ev_pc = "submit"
    /\ ev_result' = TestSequential(gateway, test_data)
    /\ ev_pc' = "returned"
    /\ ev_path' = "fallback"
    /\ UNCHANGED <<ev_cfg, test_data, gateway, batch_idx, futures,
                   successful_matches, failed_cases>>
    /\ UNCHANGED <<retryVars, lp, auxVars>>

Running == {k \in DOMAIN futures : futures[k].st = "running"}
Queued == {k \in DOMAIN futures : futures[k].st = "queued"}

\* mutant: a queued task starts whether or not a worker is free
WorkerStartUnbounded(k) ==
    /\ ev_pc = "collect"
    /\ k \in Queued
    /\ \A j \in Queued : k <= j
    /\ futures' = [futures EXCEPT ![k].st = "running"]
    /\ UNCHANGED <<ev_cfg, test_data, gateway, ev_pc, batch_idx,
                   successful_matches, failed_cases, ev_result, ev_path>>
    /\ UNCHANGED <<retryVars, lp, auxVars>>

\* a free worker takes the oldest queued task
WorkerStart(k) ==
    /\ ev_pc = "collect"
    /\ k \in Queued
    /\ \A j \in Queued : k <= j
    /\ Cardinality(Running) < ev_cfg.max_workers
    /\ futures' = [futures EXCEPT ![k].st = "running"]
    /\ UNCHANGED <<ev_cfg, test_data, gateway, ev_pc, batch_idx,
                   successful_matches, failed_cases, ev_result, ev_path>>
    /\ UNCHANGED <<retryVars, lp, auxVars>>

\* mutant: the worker itself counts its match
WorkerFinishCounts(k) ==
    /\ ev_pc = "collect"
    /\ k \in Running
    /\ futures' = [futures EXCEPT
                      ![k] = [st |-> "done",
                              res |-> TestSingleCase(gateway, test_data[k + 1][1],
                                                     test_data[k + 1][2], k)]]
    /\ successful_matches' =
           CollectMatches(successful_matches,
                          TestSingleCase(gateway, test_data[k + 1][1],
                                         test_data[k + 1][2], k))
    /\ UNCHANGED <<ev_cfg, test_data, gateway, ev_pc, batch_idx,
                   failed_cases, ev_result, ev_path>>
    /\ UNCHANGED <<retryVars, lp, auxVars>>

\* a worker's _test_single_case returns: the future is completed
WorkerFinish(k) ==
    /\ ev_pc = "collect"
    /\ k \in Running
    /\ futures' = [futures EXCEPT
                      ![k] = [st |-> "done",
                              res |-> TestSingleCase(gateway, test_data[k + 1][1],
                                                     test_data[k + 1][2], k)]]
    /\ UNCHANGED <<ev_cfg, test_data, gateway, ev_pc, batch_idx,
                   successful_matches, failed_cases, ev_result, ev_path>>
    /\ UNCHANGED <<retryVars, lp, auxVars>>

\* as_completed yields a completed future: the controller counts it
Collect(k) ==
    /\ ev_pc = "collect"
    /\ k \in DOMAIN futures
    /\ futures[k].st = "done"
    /\ successful_matches' = CollectMatches(successful_matches, futures[k].res)
    /\ failed_cases' = CollectFailed(failed_cases, test_data[k + 1], futures[k].res)
    /\ futures' = [futures EXCEPT ![k].st = "collected"]
    /\ UNCHANGED <<ev_cfg, test_data, gateway, ev_pc, batch_idx, ev_result, ev_path>>
    /\ UNCHANGED <<retryVars, lp, auxVars>>

AllCollected == \A k \in DOMAIN futures : futures[k].st = "collected"

\* the batch is done and another follows
NextBatch ==
    /\ ev_pc = "collect"
    /\ AllCollected
    /\ batch_idx < NumBatches(ev_cfg, test_data) - 1
    /\ batch_idx' = batch_idx + 1
    /\ ev_pc' = "submit"
    /\ UNCHANGED <<ev_cfg, test_data, gateway, futures,
                   successful_matches, failed_cases, ev_result, ev_path>>
    /\ UNCHANGED <<retryVars, lp, auxVars>>

\* the last batch is done: return successful_matches, total_tests, failed_cases
ReturnParallel ==
    /\ ev_pc = "collect"
    /\ AllCollected
    /\ ~(batch_idx < NumBatches(ev_cfg, test_data) - 1)
    /\ ev_result' = <<successful_matches, Len(test_data), failed_cases>>
    /\ ev_pc' = "returned"
    /\ UNCHANGED <<ev_cfg, test_data, gateway, batch_idx, futures,
                   successful_matches, failed_cases, ev_path>>
    /\ UNCHANGED <<retryVars, lp, auxVars>>

EvalNext ==
    \/ EnterParallel
    \/ RunSequential
    \/ SubmitBatch
    \/ PoolFails
    \/ \E k \in 0..MaxCases : WorkerStart(k)
    \/ \E k \in 0..MaxCases : WorkerFinish(k)
    \/ \E k \in 0..MaxCases : Collect(k)
    \/ NextBatch
    \/ ReturnParallel

-----------------------------------------------------------------------------
(* test_prompt_with_data as one call, for the optimization loop *)

\* the orders in which as_completed can hand the futures to the controller:
\* any order within a batch, the batches one after the other
CompletionOrders(cfg, data) ==
    LET n == Len(data) IN
    {s \in [1..n -> 0..(n - 1)] :
        /\ \A i, j \in 1..n : i # j => s[i] # s[j]
        /\ \A i, j \in 1..n : i < j => s[i] \div cfg.batch_size <= s[j] \div cfg.batch_size}

\* the collecting loop over the futures in the order `order`
RECURSIVE ParLoop(_, _, _, _, _, _)
ParLoop(gw, data, order, i, matches, failed) ==
    IF i > Len(order) THEN <<matches, Len(data), failed>>
    ELSE LET k == order[i]
             res == TestSingleCase(gw, data[k + 1][1], data[k + 1][2], k)
         IN  ParLoop(gw, data, order, i + 1,
                     CollectMatches(matches, res), CollectFailed(failed, data[k + 1], res))

\* test_prompt_with_data: (successful_matches, total_tests, failed_cases);
\* pool_fails: the parallel block raised and the sequential fallback ran
TestPromptWithData(gw, data, cfg, order, pool_fails) ==
    IF UseParallel(cfg, data) /\ ~pool_fails
    THEN ParLoop(gw, data, order, 1, 0, <<>>)
    ELSE TestSequential(gw, data)

\* the choices open to one evaluation: completion order and pool failure
EvalOrders(cfg, data) ==
    IF UseParallel(cfg, data) THEN CompletionOrders(cfg, data) ELSE {<<>>}
EvalPoolFails(cfg, data) == IF UseParallel(cfg, data) THEN BOOLEAN ELSE {FALSE}

\* success_rate = (successful_matches / total_tests) * 100 if total_tests > 0 else 0,
\* in thousandths of a percent
SuccessRate(matches, total) == IF total > 0 THEN (matches * 100000) \div total ELSE 0

\* mutant: one of the three terms is left out of the sum
OverallQualityTwoTerms(success_rate) == (success_rate + success_rate) \div 3

\* overall_quality = (success_rate + consistency_score + robustness_score) / 3
\* with consistency_score = robustness_score = success_rate
OverallQuality(success_rate) == (success_rate + success_rate + success_rate) \div 3

\* calculate_quality_score: evaluates the prompt again and derives the metrics
CalculateQualityScore(gw, data, cfg, order, pool_fails) ==
    LET r == TestPromptWithData(gw, data, cfg, order, pool_fails)
        success_rate == SuccessRate(r[1], r[2])
    IN  [success_rate |-> success_rate, overall_quality |-> OverallQuality(success_rate)]

-----------------------------------------------------------------------------
(* create_golden_prompt: the optimization loop *)

\* the prompt texts a mutator call can come to (after extraction)
Prompts == {<<"p", "1">>, <<"p", "2">>}
FeedbackTexts == {<<"f">>, <<"g">>}

\* what the gateway of the loop can answer on one call: for each input the expected
\* text (up to case and whitespace), another text, or a failure
TWrong == <<"n", "o">>
LoopGateways ==
    {gw \in [Inputs -> {Ok(T4), Ok(TParisLoose), Ok(THola), Ok(TWrong), Fail(TBoom)}] :
        \A i \in 1..Len(Pool) :
            \/ gw[Pool[i][1]].kind = "fail"
            \/ gw[Pool[i][1]].text = TWrong
            \/ check_output_match(gw[Pool[i][1]].text, Pool[i][2])}

\* the gateway that answers every input with exactly its expected output
ExactGateway ==
    [x \in Inputs |-> Ok(Pool[CHOOSE i \in 1..Len(Pool) : Pool[i][1] = x][2])]

\* the gateways the answer_generator stage can meet in one evaluation: the exact one
\* only, or any
AnswerGateways(exact) == IF exact THEN {ExactGateway} ELSE LoopGateways

\* every result one call of test_prompt_with_data can return, the gateway answering
\* anew on each call
EvalResults(exact, cfg, data) ==
    {TestPromptWithData(gw, data, cfg, order, pool_fails) :
        gw \in AnswerGateways(exact), order \in EvalOrders(cfg, data),
        pool_fails \in EvalPoolFails(cfg, data)}

\* every result one call of calculate_quality_score can return
QualityResults(exact, cfg, data) ==
    {CalculateQualityScore(gw, data, cfg, order, pool_fails) :
        gw \in AnswerGateways(exact), order \in EvalOrders(cfg, data),
        pool_fails \in EvalPoolFails(cfg, data)}

\* the two, tabulated by what they depend on
EvalResultsTable ==
    [ex \in BOOLEAN, par \in BOOLEAN, bs \in 1..MaxBatch, n \in 0..MaxCases |->
        EvalResults(ex, [enable_parallel |-> par, max_workers |-> 1, batch_size |-> bs],
                    TestData(n))]
QualityResultsTable ==
    [ex \in BOOLEAN, par \in BOOLEAN, bs \in 1..MaxBatch, n \in 0..MaxCases |->
        QualityResults(ex, [enable_parallel |-> par, max_workers |-> 1, batch_size |-> bs],
                       TestData(n))]

\* mutant: a tie replaces the best prompt
IsNewBestOnTie(overall_quality, best_quality_score) == overall_quality >= best_quality_score

\* mutant: the latest prompt always becomes the best prompt
IsNewBestAlways(overall_quality, best_quality_score) == TRUE

\* `if overall_quality > best_quality_score`
IsNewBest(overall_quality, best_quality_score) == overall_quality > best_quality_score

\* mutant: the perfect-score test never succeeds
PerfectScoreNever(matches, total) == matches > total

\* `if successful_matches == total_tests`
PerfectScore(matches, total) == matches = total

\* mutant: the run has converged once the success rate reaches the configured
\* target_success_rate
ConvergedOnTarget(l) ==
    l.successful_matches * 100 >= l.target_success_rate * l.total_tests

\* the convergence test of the loop, on the counts of the evaluation
Converged(l) == PerfectScore(l.successful_matches, l.total_tests)

\* mutant: every second iteration is a feedback iteration
FeedbackIterationEverySecond(iteration) == iteration % 2 = 0 /\ iteration > 2

\* `if iteration % 3 == 0 and iteration > 2`
FeedbackIteration(iteration) == iteration % 3 = 0 /\ iteration > 2

\* the `while iteration < max_iterations` test, taken after a loop body
AfterBody(l) == IF l.iteration < l.max_iterations THEN "evaluate" ELSE "returned"

\* mutant: the dataset is never found empty
EmptyNever(data) == FALSE

\* `if not test_data`
Empty(data) == Len(data) = 0

\* mutant: the exception of a mutator call is swallowed and the loop goes on
RaiseSwallowed(l, e, call) == [l EXCEPT !.pc = AfterBody(l), !.raised_by = call]

\* a mutator call raises: nothing in create_golden_prompt catches the exception,
\* which leaves the function in place of a prompt
Raise(l, e, call) == [l EXCEPT !.pc = "raised", !.result = e, !.raised_by = call]

\* mutant: the last failed case is handed to optimize_prompt
PatchCaseLast(failed) == failed[Len(failed)]

\* failed_cases[0]
PatchCase(failed) == failed[1]

\* input_data, expected_output, actual_output = failed_cases[0], handed on as
\* optimize_prompt(current_prompt, input_data, actual_output, expected_output)
PatchArgs(case) == <<case[1], case[3], case[2]>>

\* 'target_success_rate': 100 of the default configuration, and the other rates
\* config['optimization'] is given
DefaultTargetSuccessRate == 100
TargetRates == {50, DefaultTargetSuccessRate}

\* the reason text of a row of the loader
TReason == <<"w", "h", "y">>

\* str(e) of the ValueError of unpacking a row of three into two names
TValueError == <<"u", "n", "p", "a", "c", "k">>

\* load_excel_data: the rows whose index is in reasons carry a non-empty reason
\* and are appended as (input_data, expected_output, reason), the others as
\* (input_data, expected_output)
LoaderData(n, reasons) ==
    [i \in 1..n |-> IF i \in reasons THEN Append(TestData(n)[i], TReason)
                    ELSE TestData(n)[i]]

\* a row unpacks into (input_data, expected_output)
IsPair(row) == Len(row) = 2

RowUnpacks(row) == IsPair(row)

\* the state of create_golden_prompt at its entry
LoopRecord(m, exact, target) ==
    [pc |-> "start",
     exact_answers |-> exact,
     max_iterations |-> m,
     target_success_rate |-> target,
     iteration |-> 0,
     current_prompt |-> <<>>,
     best_prompt |-> <<>>,
     best_quality_score |-> 0,
     performance_history |-> <<>>,
     successful_matches |-> 0,
     total_tests |-> 0,
     failed_cases |-> <<>>,
     success_rate |-> 0,
     calls |-> <<>>,
     feedback |-> <<>>,
     patch |-> <<>>,
     raised_by |-> <<>>,
     result |-> <<>>]

\* the evaluator of the loop: the datasets of the loop stay within the parallel
\* threshold, so that every evaluation of the loop is sequential whatever
\* enable_parallel is
LoopEvaluator ==
    /\ ev_cfg \in {c \in EvalConfigs : /\ ~c.enable_parallel
                                       /\ c.max_workers = MaxWorkers
                                       /\ c.batch_size = MaxBatch}
    /\ gateway = [x \in Inputs |-> Ok(T4)]
    /\ ev_pc = "idle"
    /\ batch_idx = 0
    /\ futures = <<>>
    /\ successful_matches = 0
    /\ failed_cases = <<>>
    /\ ev_result = <<>>
    /\ ev_path = "none"

\* create_golden_prompt(use_case, test_data) is called with the rows of the loader
LoopInit ==
    /\ \E m \in 1..MaxIter, exact \in BOOLEAN :
        lp = LoopRecord(m, exact, DefaultTargetSuccessRate)
    /\ \E n \in 0..MaxLoopCases : \E reasons \in SUBSET (1..n) :
        test_data = LoaderData(n, reasons)
    /\ LoopEvaluator

\* the first two sample rows: one matching case of two is a success rate of 50
TargetData == <<Pool[1], Pool[2]>>

\* create_golden_prompt is called on the same dataset under each target rate
TargetInit ==
    /\ \E m \in 1..MaxIter, exact \in BOOLEAN, target \in TargetRates :
        lp = LoopRecord(m, exact, target)
    /\ test_data = TargetData
    /\ LoopEvaluator

\* `if not test_data: return ""`
EmptyDatasetStep(l, l2) ==
    /\ l.pc = "start"
    /\ Empty(test_data)
    /\ l2 = [l EXCEPT !.pc = "returned", !.result = <<>>]

EmptyDataset == EmptyDatasetStep(lp, lp') /\ UNCHANGED <<retryVars, evalVars, auxVars>>

\* generate_initial_prompt on the first row, then the locals of the loop are set
BootstrapStep(l, l2) ==
    /\ l.pc = "start"
    /\ ~Empty(test_data)
    /\ \A i \in {1} \cap DOMAIN test_data : RowUnpacks(test_data[i])
    /\ \E p \in Prompts :
        l2 = [l EXCEPT !.pc = AfterBody(l),
                         !.current_prompt = p,
                         !.best_prompt = p,
                         !.best_quality_score = 0,
                         !.performance_history = <<>>,
                         !.iteration = 0,
                         !.calls = Append(@, <<"generate_initial_prompt", 0>>)]

Bootstrap == BootstrapStep(lp, lp') /\ UNCHANGED <<retryVars, evalVars, auxVars>>

\* generate_initial_prompt raises (its _call_llm exhausted its attempts)
BootstrapRaisesStep(l, l2) ==
    /\ l.pc = "start"
    /\ ~Empty(test_data)
    /\ \A i \in {1} \cap DOMAIN test_data : RowUnpacks(test_data[i])
    /\ \E e \in ErrorTexts :
        l2 = Raise([l EXCEPT !.calls = Append(@, <<"generate_initial_prompt", 0>>)],
                    e, <<"generate_initial_prompt", 0>>)

BootstrapRaises == BootstrapRaisesStep(lp, lp') /\ UNCHANGED <<retryVars, evalVars, auxVars>>

\* `sample_input, sample_output = test_data[0]` on a row that carries a reason:
\* ValueError, before generate_initial_prompt is called
BootstrapUnpackRaisesStep(l, l2) ==
    /\ l.pc = "start"
    /\ ~Empty(test_data)
    /\ \E i \in {1} \cap DOMAIN test_data : ~RowUnpacks(test_data[i])
    /\ l2 = Raise(l, TValueError, <<"unpack", 0>>)

BootstrapUnpackRaises ==
    BootstrapUnpackRaisesStep(lp, lp') /\ UNCHANGED <<retryVars, evalVars, auxVars>>

\* iteration += 1; test_prompt_with_data(current_prompt, test_data):
\* `for i, (input_data, expected_output) in enumerate(test_data)` of
\* _test_sequential comes to a row that carries a reason: ValueError, outside the
\* try block of the loop body
EvaluateUnpackRaisesStep(l, l2) ==
    /\ l.pc = "evaluate"
    /\ \E i \in 1..Len(test_data) : ~RowUnpacks(test_data[i])
    /\ l2 = Raise([l EXCEPT !.iteration = @ + 1], TValueError, <<"unpack", l.iteration + 1>>)

EvaluateUnpackRaises ==
    EvaluateUnpackRaisesStep(lp, lp') /\ UNCHANGED <<retryVars, evalVars, auxVars>>

\* iteration += 1; test_prompt_with_data(current_prompt, test_data)
EvaluateStep(l, l2) ==
    /\ l.pc = "evaluate"
    /\ \A i \in 1..Len(test_data) : RowUnpacks(test_data[i])
    /\ \E r \in EvalResultsTable[l.exact_answers, ev_cfg.enable_parallel, ev_cfg.batch_size, Len(test_data)] :
        l2 = [l EXCEPT !.pc = "score",
                         !.iteration = @ + 1,
                         !.successful_matches = r[1],
                         !.total_tests = r[2],
                         !.failed_cases = r[3]]

Evaluate == EvaluateStep(lp, lp') /\ UNCHANGED <<retryVars, evalVars, auxVars>>

\* calculate_quality_score, the history record, the best-prompt update and the
\* perfect-score test
ScoreStep(l, l2) ==
    /\ l.pc = "score"
    /\ \E q \in QualityResultsTable[l.exact_answers, ev_cfg.enable_parallel, ev_cfg.batch_size, Len(test_data)] :
        LET better == IsNewBest(q.overall_quality, l.best_quality_score)
            perfect == Converged(l)
        IN
        l2 = [l EXCEPT
                 !.success_rate = q.success_rate,
                 !.performance_history =
                     Append(@, [iteration |-> l.iteration,
                                success_rate |-> q.success_rate,
                                quality_score |-> q.overall_quality,
                                prompt |-> l.current_prompt]),
                 !.best_quality_score = IF better THEN q.overall_quality ELSE @,
                 !.best_prompt = IF better THEN l.current_prompt ELSE @,
                 !.pc = IF perfect THEN "returned" ELSE "mutate",
                 !.result = IF perfect
                            THEN (IF better THEN l.current_prompt ELSE l.best_prompt)
                            ELSE @]

Score == ScoreStep(lp, lp') /\ UNCHANGED <<retryVars, evalVars, auxVars>>

\* the mutator calls made so far are logged as <<operation, iteration>>, with the
\* feedback text evolve_prompt is handed
FeedbackCall(l) == <<"collect_feedback", l.iteration>>
EvolveCall(l, feedback) == <<"evolve_prompt", l.iteration, feedback>>
\* optimize_prompt(current_prompt, input_data, actual_output, expected_output) with
\* input_data, expected_output, actual_output = failed_cases[0]
OptimizeCall(l) == <<"optimize_prompt", l.iteration>>

\* the result of the loop once the while test fails: return best_prompt
Leave(l) == IF l.pc = "returned" THEN [l EXCEPT !.result = l.best_prompt] ELSE l

\* every third iteration: collect_feedback, then evolve_prompt
EvolveStep(l, l2) ==
    /\ l.pc = "mutate"
    /\ FeedbackIteration(l.iteration)
    /\ \E f \in FeedbackTexts, p \in Prompts :
        l2 = Leave([l EXCEPT !.pc = AfterBody(l),
                               !.current_prompt = p,
                               !.feedback = f,
                               !.calls = @ \o <<FeedbackCall(l), EvolveCall(l, f)>>])

Evolve == EvolveStep(lp, lp') /\ UNCHANGED <<retryVars, evalVars, auxVars>>

\* collect_feedback raises: evolve_prompt is not reached
FeedbackRaisesStep(l, l2) ==
    /\ l.pc = "mutate"
    /\ FeedbackIteration(l.iteration)
    /\ \E e \in ErrorTexts :
        l2 = Raise([l EXCEPT !.calls = Append(@, FeedbackCall(l))], e, FeedbackCall(l))

FeedbackRaises == FeedbackRaisesStep(lp, lp') /\ UNCHANGED <<retryVars, evalVars, auxVars>>

\* evolve_prompt raises
EvolveRaisesStep(l, l2) ==
    /\ l.pc = "mutate"
    /\ FeedbackIteration(l.iteration)
    /\ \E f \in FeedbackTexts, e \in ErrorTexts :
        l2 = Raise([l EXCEPT !.feedback = f,
                               !.calls = @ \o <<FeedbackCall(l), EvolveCall(l, f)>>],
                    e, EvolveCall(l, f))

EvolveRaises == EvolveRaisesStep(lp, lp') /\ UNCHANGED <<retryVars, evalVars, auxVars>>

\* the other iterations: optimize_prompt is called on failed_cases[0] when there is
\* a failed case, and the loop breaks when there is none
OptimizeStep(l, l2) ==
    /\ l.pc = "mutate"
    /\ ~FeedbackIteration(l.iteration)
    /\ IF l.failed_cases # <<>>
       THEN l2 = [l EXCEPT !.pc = "patch",
                             !.patch = PatchArgs(PatchCase(l.failed_cases)),
                             !.calls = Append(@, OptimizeCall(l))]
       ELSE l2 = [l EXCEPT !.pc = "returned", !.result = l.best_prompt]

Optimize == OptimizeStep(lp, lp') /\ UNCHANGED <<retryVars, evalVars, auxVars>>

\* optimize_prompt returns the extracted prompt, which becomes current_prompt
OptimizeReturnsStep(l, l2) ==
    /\ l.pc = "patch"
    /\ \E p \in Prompts :
        l2 = Leave([l EXCEPT !.pc = AfterBody(l),
                               !.current_prompt = p,
                               !.patch = <<>>])

OptimizeReturns == OptimizeReturnsStep(lp, lp') /\ UNCHANGED <<retryVars, evalVars, auxVars>>

\* optimize_prompt raises (its _call_llm exhausted its attempts)
OptimizeRaisesStep(l, l2) ==
    /\ l.pc = "patch"
    /\ \E e \in ErrorTexts :
        l2 = Raise([l EXCEPT !.patch = <<>>], e, OptimizeCall(l))

OptimizeRaises == OptimizeRaisesStep(lp, lp') /\ UNCHANGED <<retryVars, evalVars, auxVars>>

\* one step of create_golden_prompt from state l to state l2
LoopStep(l, l2) ==
    \/ EmptyDatasetStep(l, l2)
    \/ BootstrapStep(l, l2)
    \/ BootstrapRaisesStep(l, l2)
    \/ BootstrapUnpackRaisesStep(l, l2)
    \/ EvaluateStep(l, l2)
    \/ EvaluateUnpackRaisesStep(l, l2)
    \/ ScoreStep(l, l2)
    \/ EvolveStep(l, l2)
    \/ FeedbackRaisesStep(l, l2)
    \/ EvolveRaisesStep(l, l2)
    \/ OptimizeStep(l, l2)
    \/ OptimizeReturnsStep(l, l2)
    \/ OptimizeRaisesStep(l, l2)

\* the steps of a run on a non-empty dataset of pairs
TargetNext ==
    \/ Bootstrap
    \/ BootstrapRaises
    \/ Evaluate
    \/ Score
    \/ Evolve
    \/ FeedbackRaises
    \/ EvolveRaises
    \/ Optimize
    \/ OptimizeReturns
    \/ OptimizeRaises

Next ==
    \/ EmptyDataset
    \/ Bootstrap
    \/ BootstrapRaises
    \/ BootstrapUnpackRaises
    \/ Evaluate
    \/ EvaluateUnpackRaises
    \/ Score
    \/ Evolve
    \/ FeedbackRaises
    \/ EvolveRaises
    \/ Optimize
    \/ OptimizeReturns
    \/ OptimizeRaises

-----------------------------------------------------------------------------
(* The five stage operations and the gateway call each of them makes *)

Stages ==
    {"initial_prompt_generator", "answer_generator", "prompt_optimizer",
     "feedback_collector", "prompt_evolver"}

\* what config['models'] can hold for one stage: no entry, an entry with provider
\* and model, or an entry without the model key ("-" stands for a missing key)
NoEntry == [present |-> FALSE, provider |-> "-", model |-> "-"]
StageEntries ==
    {NoEntry,
     [present |-> TRUE, provider |-> "gpt", model |-> "gpt-4o"],
     [present |-> TRUE, provider |-> "claude", model |-> "claude-3-5-sonnet-20241022"],
     [present |-> TRUE, provider |-> "gpt", model |-> "-"]}

\* _get_model_config: the entry of the stage, or the default entry
get_model_config(models, stage) ==
    IF models[stage].present
    THEN models[stage]
    ELSE [present |-> TRUE, provider |-> "claude", model |-> "claude-3-5-sonnet-20241022"]

\* get_llm_response(message, llm_type, model): the provider called and the model it
\* is called with, the provider's default when model is None ("-")
get_llm_response(llm_type, model) ==
    [provider |-> llm_type,
     model |-> IF model # "-" THEN model
               ELSE IF llm_type = "claude" THEN "claude-sonnet-4-5-20250929" ELSE "gpt-4"]

\* the gateway call of _call_llm(prompt, stage)
call_llm(models, stage) ==
    LET model_config == get_model_config(models, stage)
        provider == IF model_config.provider # "-" THEN model_config.provider ELSE "claude"
        model == IF model_config.model # "-" THEN model_config.model
                 ELSE "claude-3-5-sonnet-20241022"
    IN  get_llm_response(provider, model)

StageIdle == st = [pc |-> "idle"]

\* an optimizer is constructed with some models configuration
StageInit ==
    st \in [pc : {"ready"}, models : [Stages -> StageEntries],
            stage : {"-"}, call : {[provider |-> "-", model |-> "-"]}]

\* generate_initial_prompt: self._call_llm(formatted_prompt, "initial_prompt_generator")
StageGenerateInitialPrompt ==
    /\ st.pc = "ready"
    /\ st' = [st EXCEPT !.pc = "called", !.stage = "initial_prompt_generator",
                        !.call = call_llm(st.models, "initial_prompt_generator")]
    /\ UNCHANGED <<retryVars, evalVars, lp, cm, xp, oper, qs>>

\* generate_answer: self._call_llm(formatted_prompt, "answer_generator")
StageGenerateAnswer ==
    /\ st.pc = "ready"
    /\ st' = [st EXCEPT !.pc = "called", !.stage = "answer_generator",
                        !.call = call_llm(st.models, "answer_generator")]
    /\ UNCHANGED <<retryVars, evalVars, lp, cm, xp, oper, qs>>

\* optimize_prompt: self._call_llm(formatted_prompt, "prompt_optimizer")
StageOptimizePrompt ==
    /\ st.pc = "ready"
    /\ st' = [st EXCEPT !.pc = "called", !.stage = "prompt_optimizer",
                        !.call = call_llm(st.models, "prompt_optimizer")]
    /\ UNCHANGED <<retryVars, evalVars, lp, cm, xp, oper, qs>>

\* collect_feedback: get_llm_response(formatted_prompt, "claude")
StageCollectFeedback ==
    /\ st.pc = "ready"
    /\ st' = [st EXCEPT !.pc = "called", !.stage = "feedback_collector",
                        !.call = get_llm_response("claude", "-")]
    /\ UNCHANGED <<retryVars, evalVars, lp, cm, xp, oper, qs>>

\* evolve_prompt: get_llm_response(formatted_prompt, "claude")
StageEvolvePrompt ==
    /\ st.pc = "ready"
    /\ st' = [st EXCEPT !.pc = "called", !.stage = "prompt_evolver",
                        !.call = get_llm_response("claude", "-")]
    /\ UNCHANGED <<retryVars, evalVars, lp, cm, xp, oper, qs>>

StageNext ==
    \/ StageGenerateInitialPrompt
    \/ StageGenerateAnswer
    \/ StageOptimizePrompt
    \/ StageCollectFeedback
    \/ StageEvolvePrompt

-----------------------------------------------------------------------------
(* check_output_match on arbitrary texts *)

\* the characters of the texts check_output_match is called on
MatchChars == {"a", "A", "b", " ", "ß"}
MatchTexts == UNION {[1..n -> MatchChars] : n \in 0..MaxTextLen}

\* str.upper on one character: the capital of U+00DF is the two letters SS
UpperChar(c) ==
    CASE c = "a" -> <<"A">> [] c = "b" -> <<"B">> [] c = "ß" -> <<"S", "S">>
      [] OTHER -> <<c>>

\* str.upper
RECURSIVE Upper(_)
Upper(s) == IF s = <<>> THEN <<>> ELSE UpperChar(Head(s)) \o Upper(Tail(s))

\* " " + s + " "
Padded(s) == <<" ">> \o s \o <<" ">>

MatchIdle == cm = [pc |-> "idle"]

\* check_output_match is called on two texts: any two, or a text and its upper-case
\* or padded form
MatchInit ==
    \E x \in MatchTexts :
        \E y \in MatchTexts \cup {Upper(x), Padded(x)} :
            cm = [pc |-> "args", actual_output |-> x, expected_output |-> y,
                  result |-> FALSE]

\* return actual_output.strip().lower() == expected_output.strip().lower()
CheckOutputMatch ==
    /\ cm.pc = "args"
    /\ cm' = [cm EXCEPT !.pc = "returned",
                        !.result = check_output_match(cm.actual_output, cm.expected_output)]
    /\ UNCHANGED <<retryVars, evalVars, lp, st, xp, oper, qs>>

MatchNext == CheckOutputMatch

-----------------------------------------------------------------------------
(* _extract_prompt_from_response *)

\* the literals of the pattern START\s*<prompt>\s*(.*?)\s*</prompt>\s*END
LitStart == <<"S", "T", "A", "R", "T">>
LitOpen == <<"<", "p", "r", "o", "m", "p", "t", ">">>
LitClose == <<"<", "/", "p", "r", "o", "m", "p", "t", ">">>
LitEnd == <<"E", "N", "D">>

\* the number of pieces between the opening tag and the closing part of a response
MaxInner == 3

\* the texts a response is put together from
LeadTexts == {<<>>, <<"x", " ">> \o LitStart}
OpenTexts ==
    {<<>>,
     LitStart \o LitOpen,
     <<"s", "t", "a", "r", "t", " ", "\n">> \o <<"<", "P", "R", "O", "M", "P", "T", ">">>,
     LitStart \o <<" ", "x">> \o LitOpen}
InnerPieces == {<<"x">>, <<"\n">>, LitClose, LitEnd}
CloseTexts ==
    {<<>>,
     LitClose \o LitEnd,
     <<"<", "/", "P", "r", "o", "m", "p", "t", ">", "\n", " ", "e", "n", "d">>,
     LitClose}
TrailTexts ==
    {<<>>,
     <<" ", "x">>,
     <<" ">> \o LitStart \o LitOpen \o <<"y">> \o LitClose \o LitEnd}

RECURSIVE InnerTexts(_)
InnerTexts(n) ==
    IF n = 0 THEN {<<>>}
    ELSE InnerTexts(n - 1) \cup {t \o q : t \in InnerTexts(n - 1), q \in InnerPieces}

Responses ==
    {a \o b \o c \o d \o e :
        a \in LeadTexts, b \in OpenTexts, c \in InnerTexts(MaxInner),
        d \in CloseTexts, e \in TrailTexts}

\* re.IGNORECASE: two characters are the same if they agree once lower-cased
SameCharExact(a, b) == a = b

SameChar(a, b) == LowerChar(a) = LowerChar(b)

\* the literal lit stands in response at position i
LiteralAt(response, i, lit) ==
    /\ i + Len(lit) - 1 <= Len(response)
    /\ \A k \in 1..Len(lit) : SameChar(response[i + k - 1], lit[k])

\* \s* is greedy: the first position from i on that holds no whitespace. What
\* follows \s* in the pattern is a literal that starts with no whitespace, or
\* the group that takes anything, so the engine never gives whitespace back
RECURSIVE SkipSpace(_, _)
SkipSpace(response, i) ==
    IF i <= Len(response) /\ response[i] \in Whitespace
    THEN SkipSpace(response, i + 1) ELSE i

\* \s*</prompt>\s*END from position g: the position after END, or 0
TailFrom(response, g) ==
    LET b == SkipSpace(response, g) IN
    IF ~LiteralAt(response, b, LitClose) THEN 0
    ELSE LET e == SkipSpace(response, b + Len(LitClose)) IN
         IF LiteralAt(response, e, LitEnd) THEN e + Len(LitEnd) ELSE 0

\* (.*?) is lazy: the group ends at the first position g from which the rest of
\* the pattern matches; with re.DOTALL the dot takes every character. 0: no match
RECURSIVE GroupEnd(_, _)
GroupEnd(response, g) ==
    IF TailFrom(response, g) # 0 THEN g
    ELSE IF g > Len(response) THEN 0
    ELSE GroupEnd(response, g + 1)

\* the match of the pattern that starts at position s: first and last position
\* of group 1, or <<0, 0>>
NoMatch == <<0, 0>>
MatchAt(response, s) ==
    IF ~LiteralAt(response, s, LitStart) THEN NoMatch
    ELSE LET o == SkipSpace(response, s + Len(LitStart)) IN
         IF ~LiteralAt(response, o, LitOpen) THEN NoMatch
         ELSE LET p == SkipSpace(response, o + Len(LitOpen))
                  g == GroupEnd(response, p)
              IN  IF g = 0 THEN NoMatch ELSE <<p, g - 1>>

\* re.search: the match at the leftmost position that has one
RECURSIVE Search(_, _)
Search(response, s) ==
    IF s > Len(response) THEN NoMatch
    ELSE IF MatchAt(response, s) # NoMatch THEN MatchAt(response, s)
    ELSE Search(response, s + 1)

extract_prompt_from_response(response) ==
    LET match == Search(response, 1) IN
    IF match # NoMatch THEN Strip(SubSeq(response, match[1], match[2]))
    ELSE Strip(response)

ExtractIdle == xp = [pc |-> "idle"]

ExtractInit ==
    \E response \in Responses : xp = [pc |-> "call", response |-> response]

ExtractPrompt ==
    /\ xp.pc = "call"
    /\ xp' = [pc |-> "returned", response |-> xp.response,
              result |-> extract_prompt_from_response(xp.response)]
    /\ UNCHANGED <<retryVars, evalVars, lp, st, cm, oper, qs>>

ExtractNext == ExtractPrompt

-----------------------------------------------------------------------------
(* One stage operation, from its template to what its caller does with it *)

\* the operations that render a template and call the model
RetriedOperations == {"generate_initial_prompt", "generate_answer", "optimize_prompt"}
DirectOperations == {"collect_feedback", "evolve_prompt"}
Operations == RetriedOperations \cup DirectOperations

\* the operations whose response goes through _extract_prompt_from_response
ExtractingOperations == {"generate_initial_prompt", "optimize_prompt", "evolve_prompt"}

\* str(e) of the KeyError that str.format raises for a placeholder without value
TKeyError == <<"'", "k", "'">>

\* what the operation returns for the response of the model
OperationResult(name, response) ==
    IF name \in ExtractingOperations THEN extract_prompt_from_response(response)
    ELSE response

OpIdle == oper = [pc |-> "idle"]

\* an operation is called: its template has a value for every placeholder or
\* not; the performance section of the configuration is any of RetryConfigs
OpInit ==
    /\ \E name \in Operations, ok \in BOOLEAN :
        oper = [pc |-> "call", name |-> name, template_ok |-> ok,
                error |-> <<>>, result |-> <<>>]
    /\ rt_cfg \in RetryConfigs
    /\ rt_pc = "idle"
    /\ attempt = 0
    /\ last_exception = <<>>
    /\ rt_result = <<>>
    /\ gw_log = <<>>
    /\ sleeps = <<>>
    /\ reports = <<>>

\* template.format(...) raises KeyError: the operation is left before any call
OpRenderRaises ==
    /\ oper.pc = "call"
    /\ ~oper.template_ok
    /\ oper' = [oper EXCEPT !.pc = "failed", !.error = TKeyError]
    /\ UNCHANGED <<retryVars, evalVars, lp, st, cm, xp, qs>>

\* the template is rendered and self._call_llm(formatted_prompt, stage) is entered
OpCallLlm ==
    /\ oper.pc = "call"
    /\ oper.template_ok
    /\ oper.name \in RetriedOperations
    /\ oper' = [oper EXCEPT !.pc = "invoking"]
    /\ rt_pc' = "try"
    /\ UNCHANGED <<rt_cfg, attempt, last_exception, rt_result, gw_log, sleeps, reports>>
    /\ UNCHANGED <<evalVars, lp, st, cm, xp, qs>>

\* _call_llm returns the response
OpCallLlmReturns ==
    /\ oper.pc = "invoking"
    /\ rt_pc = "returned"
    /\ oper' = [oper EXCEPT !.pc = "returned",
                            !.result = OperationResult(oper.name, rt_result.text)]
    /\ UNCHANGED <<retryVars, evalVars, lp, st, cm, xp, qs>>

\* _call_llm raises the last exception
OpCallLlmRaises ==
    /\ oper.pc = "invoking"
    /\ rt_pc = "raised"
    /\ oper' = [oper EXCEPT !.pc = "failed", !.error = rt_result.text]
    /\ UNCHANGED <<retryVars, evalVars, lp, st, cm, xp, qs>>

\* the template is rendered and get_llm_response(formatted_prompt, "claude")
\* returns
OpDirectReturns ==
    /\ oper.pc = "call"
    /\ oper.template_ok
    /\ oper.name \in DirectOperations
    /\ \E t \in AnswerTexts :
        /\ gw_log' = Append(gw_log, Ok(t))
        /\ oper' = [oper EXCEPT !.pc = "returned",
                                !.result = OperationResult(oper.name, t)]
    /\ UNCHANGED <<rt_cfg, rt_pc, attempt, last_exception, rt_result, sleeps, reports>>
    /\ UNCHANGED <<evalVars, lp, st, cm, xp, qs>>

\* the template is rendered and get_llm_response(formatted_prompt, "claude")
\* raises: nothing catches the exception inside the operation
OpDirectRaises ==
    /\ oper.pc = "call"
    /\ oper.template_ok
    /\ oper.name \in DirectOperations
    /\ \E e \in ErrorTexts :
        /\ gw_log' = Append(gw_log, Fail(e))
        /\ oper' = [oper EXCEPT !.pc = "failed", !.error = e]
    /\ UNCHANGED <<rt_cfg, rt_pc, attempt, last_exception, rt_result, sleeps, reports>>
    /\ UNCHANGED <<evalVars, lp, st, cm, xp, qs>>

\* generate_answer is called in the try block of _test_single_case and of
\* _test_sequential: `except Exception as e` makes the case a failed one with
\* str(e) as its output, and the evaluation goes on
CaseAbsorbs ==
    /\ oper.pc = "failed"
    /\ oper.name = "generate_answer"
    /\ oper' = [oper EXCEPT !.pc = "case_failed", !.result = oper.error]
    /\ UNCHANGED <<retryVars, evalVars, lp, st, cm, xp, qs>>

\* the other operations are called by create_golden_prompt outside any try
\* block: their exception leaves create_golden_prompt
RunAborts ==
    /\ oper.pc = "failed"
    /\ oper.name # "generate_answer"
    /\ oper' = [oper EXCEPT !.pc = "aborted"]
    /\ UNCHANGED <<retryVars, evalVars, lp, st, cm, xp, qs>>

OpNext ==
    \/ OpRenderRaises
    \/ OpCallLlm
    \/ GatewayReturns
    \/ GatewayFailsRetry
    \/ GatewayFailsFinal
    \/ OpCallLlmReturns
    \/ OpCallLlmRaises
    \/ OpDirectReturns
    \/ OpDirectRaises
    \/ CaseAbsorbs
    \/ RunAborts

-----------------------------------------------------------------------------
(* calculate_quality_score *)

QualityIdle == qs = [pc |-> "idle"]

\* calculate_quality_score has called
\* self.test_prompt_with_data(prompt, test_data, verbose=False)
QualityInit == qs = [pc |-> "evaluating"] /\ EvalInit

\* test_prompt_with_data has returned: the metrics are derived from its counts
QualityReturn ==
    /\ qs.pc = "evaluating"
    /\ ev_pc = "returned"
    /\ qs' = [pc |-> "returned",
              success_rate |-> SuccessRate(ev_result[1], ev_result[2]),
              successful_cases |-> ev_result[1],
              total_cases |-> ev_result[2],
              overall_quality |-> OverallQuality(SuccessRate(ev_result[1], ev_result[2]))]
    /\ UNCHANGED <<retryVars, evalVars, lp, st, cm, xp, oper>>

QualityNext ==
    \/ EnterParallel
    \/ RunSequential
    \/ SubmitBatch
    \/ PoolFails
    \/ \E k \in 0..MaxCases : WorkerStart(k)
    \/ \E k \in 0..MaxCases : WorkerFinish(k)
    \/ \E k \in 0..MaxCases : Collect(k)
    \/ NextBatch
    \/ ReturnParallel
    \/ QualityReturn

\* the parts of the module a specification leaves alone
OtherIdle == ExtractIdle /\ OpIdle /\ QualityIdle

-----------------------------------------------------------------------------
(* Specifications *)

LoopIdle == lp = [pc |-> "idle"]

InitRetry == RetryInit /\ EvalIdle /\ LoopIdle /\ StageIdle /\ MatchIdle /\ OtherIdle

SpecRetry == InitRetry /\ [][RetryNext]_vars

Init == LoopInit /\ RetryIdle /\ StageIdle /\ MatchIdle /\ OtherIdle

Spec == Init /\ [][Next]_vars

InitEval == EvalInit /\ RetryIdle /\ LoopIdle /\ StageIdle /\ MatchIdle /\ OtherIdle

SpecEval == InitEval /\ [][EvalNext]_vars

InitStage == StageInit /\ RetryIdle /\ EvalIdle /\ LoopIdle /\ MatchIdle /\ OtherIdle

SpecStage == InitStage /\ [][StageNext]_vars

InitExtract ==
    ExtractInit /\ RetryIdle /\ EvalIdle /\ LoopIdle /\ StageIdle /\ MatchIdle /\ OpIdle
    /\ QualityIdle

SpecExtract == InitExtract /\ [][ExtractNext]_vars

InitOp ==
    OpInit /\ EvalIdle /\ LoopIdle /\ StageIdle /\ MatchIdle /\ ExtractIdle /\ QualityIdle

SpecOp == InitOp /\ [][OpNext]_vars

InitQuality ==
    QualityInit /\ RetryIdle /\ LoopIdle /\ StageIdle /\ MatchIdle /\ ExtractIdle /\ OpIdle

SpecQuality == InitQuality /\ [][QualityNext]_vars

InitTarget == TargetInit /\ RetryIdle /\ StageIdle /\ MatchIdle /\ OtherIdle

SpecTarget == InitTarget /\ [][TargetNext]_vars

InitMatch == MatchInit /\ RetryIdle /\ EvalIdle /\ LoopIdle /\ StageIdle /\ OtherIdle

SpecMatch == InitMatch /\ [][MatchNext]_vars

-----------------------------------------------------------------------------
(* Claims about _call_llm, checked under SpecRetry *)

AllFailed(log) == \A i \in 1..Len(log) : log[i].kind = "fail"

\* C5: Retry exhaustion. An invocation whose gateway call fails on every attempt
\* makes exactly max_retries + 1 attempts and then raises the failure of the last
\* attempt: it has not raised before, it never returns a value, and no attempt
\* follows the raise (exactly 3 attempts for max_retries = 2).
RetryExhaustion ==
    /\ Len(gw_log) <= rt_cfg.max_retries + 1
    /\ (AllFailed(gw_log) /\ Len(gw_log) < rt_cfg.max_retries + 1) => rt_pc = "try"
    /\ (AllFailed(gw_log) /\ Len(gw_log) = rt_cfg.max_retries + 1) =>
          /\ rt_pc = "raised"
          /\ rt_result = gw_log[Len(gw_log)]
    /\ rt_pc = "raised" =>
          /\ AllFailed(gw_log)
          /\ Len(gw_log) = rt_cfg.max_retries + 1
    /\ (rt_pc = "raised" /\ rt_cfg.max_retries = 2) => Len(gw_log) = 3

\* a permanently failing gateway with max_retries = 2: raised after 3 attempts, the
\* attempts failing differently so that "the last failure" is told apart
RetryExhaustionWitness ==
    /\ rt_pc = "raised"
    /\ rt_cfg.max_retries = 2
    /\ Len(gw_log) = 3
    /\ gw_log[1] = Fail(TBoom)
    /\ gw_log[3] = Fail(TRate)
    /\ rt_result = Fail(TRate)

\* C6: Retry delay schedule. The sleep after failed attempt a (0-based) that is
\* followed by another attempt lasts retry_delay * 2^a with exponential backoff and
\* retry_delay without; there is one sleep between two consecutive attempts and
\* none after the final failed attempt (1s then 2s for retry_delay = 1,
\* max_retries = 2).
RetryDelaySchedule ==
    /\ \A i \in 1..Len(sleeps) :
          sleeps[i] = IF rt_cfg.exponential_backoff
                      THEN rt_cfg.retry_delay * 2^(i - 1)
                      ELSE rt_cfg.retry_delay
    /\ rt_pc = "try" => Len(sleeps) = Len(gw_log)
    /\ rt_pc \in {"returned", "raised"} => Len(sleeps) = Len(gw_log) - 1
    /\ (/\ rt_pc = "raised"
        /\ rt_cfg = [max_retries |-> 2, retry_delay |-> 1, exponential_backoff |-> TRUE])
          => sleeps = <<1, 2>>

RetryDelayScheduleWitness ==
    /\ rt_pc = "raised"
    /\ rt_cfg = [max_retries |-> 2, retry_delay |-> 1, exponential_backoff |-> TRUE]
    /\ Len(gw_log) = 3
    /\ sleeps = <<1, 2>>

\* C7: A successful invocation has no retry side effect. When the gateway succeeds
\* on attempt a, _call_llm returns that text at once, makes no further attempt, and
\* has reported and slept exactly a times (none when the first attempt succeeds).
SuccessNoSideEffect ==
    /\ \A i \in 1..Len(gw_log) :
          gw_log[i].kind = "ok" =>
             /\ i = Len(gw_log)
             /\ rt_pc = "returned"
             /\ rt_result = gw_log[i]
             /\ Len(reports) = i - 1
             /\ Len(sleeps) = i - 1
             /\ \A j \in 1..Len(reports) : reports[j][1] = j
    /\ rt_pc = "returned" => (gw_log # <<>> /\ gw_log[Len(gw_log)].kind = "ok")

\* success on attempt 2, after two reported failures
SuccessNoSideEffectWitness ==
    /\ rt_pc = "returned"
    /\ Len(gw_log) = 3
    /\ attempt = 2
    /\ Len(reports) = 2
    /\ Len(sleeps) = 2

-----------------------------------------------------------------------------
(* Claims about the evaluator, checked under SpecEval *)

SeqToSet(q) == {q[i] : i \in 1..Len(q)}
Occurrences(q, x) == Cardinality({i \in 1..Len(q) : q[i] = x})
Returned == ev_pc = "returned"
CaseIndices == 0..(Len(test_data) - 1)
CaseInput(k) == test_data[k + 1][1]
CaseExpected(k) == test_data[k + 1][2]

\* C8: Parallel/sequential equivalence. For a fixed dataset and a deterministic
\* gateway, an evaluation in parallel mode returns the match_count and the set of
\* failed cases (input, expected output, recorded actual output) that the
\* sequential evaluation of the same dataset returns.
ParallelSequentialEquivalence ==
    (Returned /\ ev_path = "parallel") =>
        /\ ev_result[1] = TestSequential(gateway, test_data)[1]
        /\ SeqToSet(ev_result[3]) = SeqToSet(TestSequential(gateway, test_data)[3])

\* what one worker returns for case k, whatever the interleaving
WorkerResult(k) == TestSingleCase(gateway, CaseInput(k), CaseExpected(k), k)
WorkerFailedCase(k) == <<CaseInput(k), CaseExpected(k), WorkerResult(k)[2]>>
MismatchedCases == {k \in CaseIndices : ~WorkerResult(k)[1]}

\* C9: Aggregation in parallel mode is order-independent. Whatever the
\* interleaving and completion order of the worker tasks, the evaluation returns
\* the number of cases whose worker reported a match, and a failed list holding
\* the case of every worker that reported a mismatch exactly once: no completed
\* result is lost or counted twice.
AggregationOrderIndependent ==
    (Returned /\ ev_path = "parallel") =>
        /\ ev_result[1] = Cardinality(CaseIndices \ MismatchedCases)
        /\ ev_result[2] = Len(test_data)
        /\ Len(ev_result[3]) = Cardinality(MismatchedCases)
        /\ \A k \in MismatchedCases :
              Occurrences(ev_result[3], WorkerFailedCase(k)) =
                 Cardinality({j \in MismatchedCases : WorkerFailedCase(j) = WorkerFailedCase(k)})

\* two cases of one batch fail and are collected against the dataset order
AggregationOrderIndependentWitness ==
    /\ Returned
    /\ ev_path = "parallel"
    /\ Len(ev_result[3]) >= 2
    /\ ev_result[3][1][1] = CaseInput(1)
    /\ ev_result[3][2][1] = CaseInput(0)

\* the cases whose invocation fails, and those whose answer matches
FailingCases == {k \in CaseIndices : generate_answer(gateway, CaseInput(k)).kind = "fail"}
MatchingCases ==
    {k \in CaseIndices :
        /\ generate_answer(gateway, CaseInput(k)).kind = "ok"
        /\ check_output_match(generate_answer(gateway, CaseInput(k)).text, CaseExpected(k))}
FailureMessage(k) == generate_answer(gateway, CaseInput(k)).text

\* C10: A model-invocation failure during case evaluation is absorbed, in both
\* execution modes: the evaluation ends by returning, never by raising; the failing
\* case is not counted as a match and is in the failed list with the failure text
\* as its recorded actual output (the exception's message in parallel mode, the
\* message after "Error: " in sequential mode); and every other case is still
\* evaluated and counted.
FailureAbsorbed ==
    /\ ~ENABLED EvalNext => Returned
    /\ Returned =>
          /\ ev_result[2] = Len(test_data)
          /\ ev_result[1] = Cardinality(MatchingCases)
          /\ ev_result[1] + Len(ev_result[3]) = Len(test_data)
          /\ \A k \in FailingCases :
                \E i \in 1..Len(ev_result[3]) :
                   ev_result[3][i] =
                      <<CaseInput(k), CaseExpected(k),
                        IF ev_path = "parallel"
                        THEN FailureMessage(k)
                        ELSE <<"E", "r", "r", "o", "r", ":", " ">> \o FailureMessage(k)>>

\* parallel mode: the first case fails, the second matches and is counted
FailureAbsorbedWitness ==
    /\ Returned
    /\ ev_path = "parallel"
    /\ gateway[CaseInput(0)] = Fail(TBoom)
    /\ gateway[CaseInput(1)] = Ok(TParisLoose)
    /\ ev_result[1] >= 1
    /\ \E i \in 1..Len(ev_result[3]) : ev_result[3][i] = <<CaseInput(0), CaseExpected(0), TBoom>>

-----------------------------------------------------------------------------
(* Claims about create_golden_prompt, checked under Spec *)

History == lp.performance_history
LoopReturned == lp.pc = "returned" /\ test_data # <<>>
\* the evaluation of the current iteration found every case matching
AllMatched ==
    lp.iteration > 0 /\ lp.total_tests > 0 /\ lp.successful_matches = lp.total_tests

\* C1: Convergence implies selection. For a dataset with total > 0 and whatever the
\* model returns on each call, when the evaluation of iteration k yields
\* matches == total, the prompt create_golden_prompt returns is the prompt that was
\* evaluated in iteration k.
ConvergenceImpliesSelection ==
    (LoopReturned /\ AllMatched) => lp.result = lp.current_prompt

\* C2: Convergence stops the loop at once. When the evaluation of iteration k
\* yields matches == total, the loop returns in that iteration: no mutator
\* operation is invoked in or after iteration k, no iteration k + 1 is started, and
\* the history ends with the record of iteration k.
ConvergenceStopsLoop ==
    /\ AllMatched => lp.pc \in {"score", "returned"}
    /\ (LoopReturned /\ AllMatched) =>
          /\ Len(History) = lp.iteration
          /\ History[Len(History)].iteration = lp.iteration
          /\ History[Len(History)].prompt = lp.current_prompt
          /\ \A i \in 1..Len(lp.calls) : lp.calls[i][2] < lp.iteration
          /\ ~ENABLED Next

\* convergence in iteration 2 of 3, after one patch
ConvergenceStopsLoopWitness ==
    /\ LoopReturned
    /\ AllMatched
    /\ lp.iteration = 2
    /\ lp.max_iterations = 3
    /\ lp.calls = <<<<"generate_initial_prompt", 0>>, <<"optimize_prompt", 1>>>>

\* the earliest record of the history whose quality is the maximum of the history
IsMaxRecord(i) == \A j \in 1..Len(History) : History[j].quality_score <= History[i].quality_score
EarliestMaxRecord ==
    CHOOSE i \in 1..Len(History) :
        /\ IsMaxRecord(i)
        /\ \A j \in 1..(i - 1) : ~IsMaxRecord(j)

\* C3: The best prompt is the prompt of the earliest iteration record whose overall
\* quality is the maximum over the history (a tie never replaces it), and it is the
\* prompt create_golden_prompt returns for a non-empty dataset.
BestIsEarliestMaximum ==
    /\ History # <<>> => lp.best_prompt = History[EarliestMaxRecord].prompt
    /\ LoopReturned =>
          /\ History # <<>>
          /\ lp.result = History[EarliestMaxRecord].prompt

\* a later prompt ties the best quality and the earlier prompt is returned
BestIsEarliestMaximumWitness ==
    /\ LoopReturned
    /\ Len(History) >= 2
    /\ History[1].quality_score > 0
    /\ History[2].quality_score = History[1].quality_score
    /\ History[2].prompt # History[1].prompt
    /\ IsMaxRecord(1)
    /\ lp.result = History[1].prompt

\* C4: Best-is-monotonic-nondecreasing. best_quality_score starts at 0 and no step
\* of the loop lowers it, also when the overall quality of the current prompt
\* drops from one iteration to the next.
BestQualityMonotonic ==
    [][/\ lp.pc # "idle" => lp.best_quality_score >= 0
       /\ (lp.pc # "idle" /\ lp'.pc # "idle") =>
             lp'.best_quality_score >= lp.best_quality_score]_vars

\* the quality of the current prompt dropped and the best quality stayed
BestQualityMonotonicWitness ==
    /\ Len(History) >= 2
    /\ History[2].quality_score < History[1].quality_score
    /\ lp.best_quality_score = History[1].quality_score
    /\ lp.best_prompt = History[1].prompt
    /\ lp.best_prompt # lp.current_prompt

\* C11: A failure of a model invocation on the mutation path is a hard failure. When
\* generate_initial_prompt, optimize_prompt or evolve_prompt raises (its retries, if
\* any, used up), create_golden_prompt ends by raising that failure: nothing is
\* returned, no iteration is started after it and no model call follows it.
MutationFailureIsHard ==
    (/\ lp.pc # "idle"
     /\ lp.raised_by # <<>>
     /\ lp.raised_by[1] \in {"generate_initial_prompt", "optimize_prompt", "evolve_prompt"})
    =>
    /\ lp.pc = "raised"
    /\ lp.result \in ErrorTexts
    /\ lp.iteration = lp.raised_by[2]
    /\ Len(History) = lp.iteration
    /\ lp.calls[Len(lp.calls)] = lp.raised_by
    /\ ~ENABLED Next

\* the rewrite of iteration 3 failed, after two patched iterations
MutationFailureIsHardWitness ==
    /\ lp.pc = "raised"
    /\ lp.raised_by # <<>>
    /\ lp.raised_by[1] = "evolve_prompt"
    /\ lp.iteration = 3
    /\ Len(History) = 3

\* the number of calls of operation op logged for iteration k
CallsIn(k, op) ==
    Cardinality({i \in 1..Len(lp.calls) : lp.calls[i][1] = op /\ lp.calls[i][2] = k})

\* iteration k did not converge and its mutation step has come back
MutationDone(k) ==
    /\ k \in 1..lp.iteration
    /\ \/ k < lp.iteration
       \/ lp.pc = "evaluate"
       \/ lp.pc = "returned" /\ lp.successful_matches # lp.total_tests

\* C12: Mutation selection schedule. In every iteration k that did not converge
\* exactly one mutation path is taken: collect_feedback and then evolve_prompt with
\* the feedback collected, exactly when k % 3 = 0 and k > 2, and optimize_prompt
\* otherwise. optimize_prompt is never called in a feedback iteration, and
\* collect_feedback and evolve_prompt are never called in any other.
MutationSchedule ==
    lp.pc # "idle" =>
    /\ \A i \in 1..Len(lp.calls) :
        LET op == lp.calls[i][1]
            k == lp.calls[i][2]
        IN  /\ op \in {"collect_feedback", "evolve_prompt"} => (k % 3 = 0 /\ k > 2)
            /\ op = "optimize_prompt" => (k >= 1 /\ ~(k % 3 = 0 /\ k > 2))
            /\ op = "generate_initial_prompt" => k = 0
            /\ op = "evolve_prompt" =>
                  /\ i > 1
                  /\ lp.calls[i - 1] = <<"collect_feedback", k>>
                  /\ lp.calls[i][3] = lp.feedback
    /\ \A k \in 1..lp.iteration :
        /\ CallsIn(k, "optimize_prompt") + CallsIn(k, "collect_feedback") <= 1
        /\ CallsIn(k, "evolve_prompt") <= CallsIn(k, "collect_feedback")
        /\ MutationDone(k) =>
              IF k % 3 = 0 /\ k > 2
              THEN CallsIn(k, "collect_feedback") = 1 /\ CallsIn(k, "evolve_prompt") = 1
              ELSE CallsIn(k, "optimize_prompt") = 1

\* iterations 1 and 2 patched, iteration 3 collected feedback and rewrote
MutationScheduleWitness ==
    /\ lp.pc = "returned"
    /\ lp.iteration = 3
    /\ MutationDone(3)
    /\ Len(lp.calls) = 5
    /\ lp.calls[2] = <<"optimize_prompt", 1>>
    /\ lp.calls[3] = <<"optimize_prompt", 2>>
    /\ lp.calls[4] = <<"collect_feedback", 3>>
    /\ lp.calls[5] = <<"evolve_prompt", 3, lp.feedback>>

\* C13: Local-patch tie-break. Whenever optimize_prompt is called, with the list
\* failed_cases the evaluation of the iteration returned, its arguments are the
\* input, the actual output and the expected output of failed_cases[0], and of no
\* other failed case.
PatchUsesFirstFailedCase ==
    lp.pc = "patch" =>
    /\ lp.failed_cases # <<>>
    /\ lp.patch = <<lp.failed_cases[1][1], lp.failed_cases[1][3], lp.failed_cases[1][2]>>
    /\ \A i \in 2..Len(lp.failed_cases) :
          lp.failed_cases[i] # lp.failed_cases[1] =>
              lp.patch # <<lp.failed_cases[i][1], lp.failed_cases[i][3], lp.failed_cases[i][2]>>
    /\ lp.calls[Len(lp.calls)] = <<"optimize_prompt", lp.iteration>>

\* optimize_prompt is running on the first of two different failed cases
PatchUsesFirstFailedCaseWitness ==
    /\ lp.pc = "patch"
    /\ Len(lp.failed_cases) >= 2
    /\ lp.failed_cases[2] # lp.failed_cases[1]
    /\ lp.patch[1] = lp.failed_cases[1][1]
    /\ lp.patch[1] # lp.failed_cases[2][1]

\* the run is over in the iteration numbered max_iterations, which did not converge
Exhausted ==
    /\ lp.pc \in {"returned", "raised"}
    /\ lp.iteration = lp.max_iterations
    /\ Len(History) = lp.max_iterations
    /\ lp.successful_matches # lp.total_tests

\* the loop never runs more than max_iterations iterations and writes one history
\* record per iteration, numbered from 1
LoopBounded ==
    lp.pc \notin {"idle", "start"} =>
    /\ lp.iteration <= lp.max_iterations
    /\ Len(History) \in {lp.iteration - 1, lp.iteration}
    /\ \A i \in 1..Len(History) : History[i].iteration = i

\* C14: The loop is bounded and exhaustion is not a failure. The loop runs at most
\* max_iterations iterations, with one history record per iteration numbered 1, 2,
\* ... and a run that reaches max_iterations without convergence returns the best
\* prompt found instead of raising.
ExhaustionReturnsBest ==
    /\ LoopBounded
    /\ Exhausted => (lp.pc = "returned" /\ lp.result = lp.best_prompt)

\* every row of the dataset is an (input_data, expected_output) pair
RowsArePairs == \A i \in 1..Len(test_data) : Len(test_data[i]) = 2

\* C15: End-to-end convergence at iteration 1. With a non-empty dataset of
\* (input, expected output) pairs and an answer_generator gateway that returns
\* exactly the expected output of every input, the first evaluation finds every
\* case matching, the loop stops in iteration 1 with overall quality 100,
\* generate_initial_prompt was called once, no mutator was called, and the prompt
\* returned is the bootstrapped one.
ExactAnswersConvergeAtOnce ==
    (lp.pc # "idle" /\ lp.exact_answers /\ ~Empty(test_data) /\ RowsArePairs) =>
    /\ lp.pc \in {"start", "evaluate", "score", "returned", "raised"}
    /\ lp.pc = "raised" => lp.raised_by = <<"generate_initial_prompt", 0>>
    /\ lp.pc \in {"score", "returned"} =>
          /\ lp.iteration = 1
          /\ lp.successful_matches = Len(test_data)
          /\ lp.total_tests = Len(test_data)
          /\ lp.failed_cases = <<>>
    /\ lp.pc \in {"evaluate", "score", "returned"} =>
          /\ lp.calls = <<<<"generate_initial_prompt", 0>>>>
          /\ lp.current_prompt \in Prompts
    /\ lp.pc = "returned" =>
          /\ Len(History) = 1
          /\ History[1].quality_score = 100000
          /\ History[1].success_rate = 100000
          /\ lp.best_quality_score = 100000
          /\ lp.result = lp.current_prompt
          /\ lp.result = History[1].prompt
          /\ ~ENABLED Next

\* two cases, both answered exactly, several iterations allowed: returned after one
ExactAnswersConvergeAtOnceWitness ==
    /\ lp.pc = "returned"
    /\ lp.exact_answers
    /\ Len(test_data) = 2
    /\ lp.max_iterations = 3
    /\ lp.iteration = 1
    /\ lp.result \in Prompts

\* C16: Empty dataset. With an empty dataset create_golden_prompt returns the empty
\* string at once: the loop is not entered and no operation of any stage is called,
\* generate_initial_prompt included.
EmptyDatasetReturnsAtOnce ==
    (lp.pc # "idle" /\ test_data = <<>>) =>
    /\ lp.pc \in {"start", "returned"}
    /\ lp.calls = <<>>
    /\ lp.iteration = 0
    /\ History = <<>>
    /\ lp.pc = "start" => (~ENABLED Bootstrap /\ ~ENABLED BootstrapRaises)
    /\ lp.pc = "returned" => (lp.result = <<>> /\ ~ENABLED Next)

\* the run on the empty dataset is over
EmptyDatasetReturnsAtOnceWitness ==
    /\ lp.pc = "returned"
    /\ test_data = <<>>
    /\ lp.result = <<>>
    /\ lp.calls = <<>>

-----------------------------------------------------------------------------
(* Claims about the stage operations, checked under SpecStage *)

\* C17: Stage routing is preserved for all five stages. Every gateway call made for
\* initial-prompt generation, answer generation, prompt patching, feedback
\* collection and prompt rewriting goes to the provider and the model that
\* config['models'] holds for the stage of the operation.
StageRoutingPreserved ==
    (/\ st.pc = "called"
     /\ st.models[st.stage].present
     /\ st.models[st.stage].model # "-")
    =>
    /\ st.call.provider = st.models[st.stage].provider
    /\ st.call.model = st.models[st.stage].model

\* the three operations that go through _call_llm do follow the configuration
CallLlmStagesRouted ==
    (/\ st.pc = "called"
     /\ st.stage \in {"initial_prompt_generator", "answer_generator", "prompt_optimizer"}
     /\ st.models[st.stage].present
     /\ st.models[st.stage].model # "-")
    =>
    /\ st.call.provider = st.models[st.stage].provider
    /\ st.call.model = st.models[st.stage].model

-----------------------------------------------------------------------------
(* Claims about the evaluator's batches and fallback, checked under SpecEval *)

\* C18: Bounded batched concurrency in parallel mode. The dataset is cut in order
\* into consecutive batches of batch_size cases, the last possibly shorter; at every
\* moment at most max_workers cases are being evaluated, all of the current batch;
\* and while a batch is in progress every case of the batches before it has been
\* completed and counted, and no case of a later batch has been started.
BoundedBatchedConcurrency ==
    /\ \A k \in DOMAIN futures :
          futures[k].st \in {"queued", "running", "done"} => ev_pc = "collect"
    /\ ev_pc = "collect" =>
          /\ batch_idx * ev_cfg.batch_size < Len(test_data)
          /\ DOMAIN futures =
                {k \in CaseIndices : /\ batch_idx * ev_cfg.batch_size <= k
                                     /\ k < (batch_idx + 1) * ev_cfg.batch_size}
          /\ Cardinality({k \in DOMAIN futures : futures[k].st = "running"})
                <= ev_cfg.max_workers
          /\ successful_matches + Len(failed_cases) =
                batch_idx * ev_cfg.batch_size
                + Cardinality({k \in DOMAIN futures : futures[k].st = "collected"})

\* the second batch is in progress with as many cases running as there are workers
BoundedBatchedConcurrencyWitness ==
    /\ ev_pc = "collect"
    /\ batch_idx = 1
    /\ ev_cfg.max_workers = 2
    /\ Running = {2, 3}
    /\ successful_matches + Len(failed_cases) = 2

\* the cases that do not match, and what _test_sequential records for one of them
NonMatchingCases == CaseIndices \ MatchingCases
SequentialFailedCase(k) ==
    <<CaseInput(k), CaseExpected(k),
      IF k \in FailingCases
      THEN <<"E", "r", "r", "o", "r", ":", " ">> \o FailureMessage(k)
      ELSE generate_answer(gateway, CaseInput(k)).text>>
NthNonMatching(i) ==
    CHOOSE k \in NonMatchingCases : Cardinality({j \in NonMatchingCases : j < k}) = i - 1

\* C19: Fallback on pool failure. When the parallel block raises outside the
\* evaluation of a single case, the evaluator returns a sequential evaluation of the
\* whole dataset: total_count is the dataset size, every case is accounted for once,
\* as a match or as a failed case in dataset order, and nothing counted or
\* collected by the aborted parallel run is part of the result.
FallbackIsFullSequential ==
    (Returned /\ ev_path = "fallback") =>
        /\ ev_result[2] = Len(test_data)
        /\ ev_result[1] = Cardinality(MatchingCases)
        /\ Len(ev_result[3]) = Cardinality(NonMatchingCases)
        /\ \A i \in 1..Len(ev_result[3]) :
              ev_result[3][i] = SequentialFailedCase(NthNonMatching(i))

\* the pool failed at the second batch, the first having counted a match and
\* collected a failed case
FallbackIsFullSequentialWitness ==
    /\ Returned
    /\ ev_path = "fallback"
    /\ batch_idx = 1
    /\ successful_matches >= 1
    /\ failed_cases # <<>>
    /\ ev_result[1] >= 1
    /\ ev_result[3] # <<>>

-----------------------------------------------------------------------------
(* Claims about check_output_match, checked under SpecMatch *)

\* a text without its leading and trailing whitespace
Trimmed(t) ==
    LET inner == {i \in 1..Len(t) : t[i] \notin Whitespace} IN
    IF inner = {} THEN <<>>
    ELSE SubSeq(t, CHOOSE i \in inner : \A j \in inner : i <= j,
                   CHOOSE i \in inner : \A j \in inner : j <= i)

\* the value returned is the equality of the trimmed, lower-cased arguments; a
\* padded text matches the text, "a" does not match "b", and the relation is
\* reflexive and symmetric
MatchIsTrimmedFoldedEquality ==
    cm.pc = "returned" =>
        /\ cm.result =
              (Lower(Trimmed(cm.actual_output)) = Lower(Trimmed(cm.expected_output)))
        /\ cm.expected_output = Padded(cm.actual_output) => cm.result
        /\ (cm.actual_output = <<"a">> /\ cm.expected_output = <<"b">>) => ~cm.result
        /\ cm.expected_output = cm.actual_output => cm.result
        /\ cm.result = check_output_match(cm.expected_output, cm.actual_output)

\* C20: Matching is case/whitespace-insensitive equality. check_output_match(x, y)
\* is true exactly when x and y are equal after trimming and case folding; so every
\* text a matches a.upper() and " a " matches "a", "a" does not match "b", and the
\* relation is reflexive and symmetric.
MatchIsCaseWhitespaceInsensitive ==
    /\ MatchIsTrimmedFoldedEquality
    /\ (cm.pc = "returned" /\ cm.expected_output = Upper(cm.actual_output)) => cm.result

-----------------------------------------------------------------------------
(* Claims about _extract_prompt_from_response, checked under SpecExtract *)

\* the response holds only whitespace from position i up to position j - 1
SpaceBetween(response, i, j) ==
    i <= j /\ \A k \in i..(j - 1) : response[k] \in Whitespace

\* the positions where the literal lit stands in response, in any case
Occurs(response, lit) ==
    {i \in 1..(Len(response) - Len(lit) + 1) :
        \A k \in 1..Len(lit) : LowerChar(response[i + k - 1]) = LowerChar(lit[k])}

\* <<s, a, b>>: a span starts at s and its interior runs from a to b - 1: START
\* at s, whitespace, the opening tag ending just before a, the closing tag at b,
\* whitespace, END; all markers in any case
Spans(response) ==
    {z \in Occurs(response, LitStart)
            \X {o + Len(LitOpen) : o \in Occurs(response, LitOpen)}
            \X Occurs(response, LitClose) :
        /\ SpaceBetween(response, z[1] + Len(LitStart), z[2] - Len(LitOpen))
        /\ z[2] <= z[3]
        /\ \E e \in Occurs(response, LitEnd) :
              SpaceBetween(response, z[3] + Len(LitClose), e)}

\* the span that starts first and, among those, closes first
FirstSpan(response) ==
    CHOOSE z \in Spans(response) :
        \A y \in Spans(response) : z[1] < y[1] \/ (z[1] = y[1] /\ z[3] <= y[3])

\* C21: Prompt extraction. For a response that holds a START <prompt> ...
\* </prompt> END span (markers in any case, the interior may span lines) the value
\* returned is the trimmed interior of the first such span and nothing else of
\* the response; for a response without a span it is the whole trimmed response.
PromptExtraction ==
    xp.pc = "returned" =>
        IF Spans(xp.response) = {} THEN xp.result = Trimmed(xp.response)
        ELSE LET z == FirstSpan(xp.response) IN
             xp.result = Trimmed(SubSeq(xp.response, z[2], z[3] - 1))

\* a response with text before the span, markers in lower and upper case, an
\* interior over several lines and a second span behind the first
PromptExtractionWitness ==
    /\ xp.pc = "returned"
    /\ Cardinality(Spans(xp.response)) > 1
    /\ xp.response[1] = "x"
    /\ FirstSpan(xp.response)[1] > 3
    /\ \E i \in 1..Len(xp.response) : xp.response[i] = "P"
    /\ \E i \in 1..Len(xp.result) : xp.result[i] = "\n"
    /\ Len(xp.result) < FirstSpan(xp.response)[3] - FirstSpan(xp.response)[2]

\* a response without a span comes back whole, trimmed
PromptExtractionFallbackWitness ==
    /\ xp.pc = "returned"
    /\ Spans(xp.response) = {}
    /\ \E i \in 1..Len(xp.response) : xp.response[i] = ">"
    /\ Len(xp.result) < Len(xp.response)
    /\ xp.result # <<>>

-----------------------------------------------------------------------------
(* Claims about the shared state of a parallel evaluation, checked under SpecEval *)

\* task k is taken up or completed by a worker thread in this step
WorkerStep(k) ==
    /\ k \in DOMAIN futures /\ k \in DOMAIN futures'
    /\ \/ futures[k].st = "queued" /\ futures'[k].st = "running"
       \/ futures[k].st = "running" /\ futures'[k].st = "done"

\* the controlling thread takes the completed future k from as_completed
ControllerStep(k) ==
    /\ k \in DOMAIN futures /\ k \in DOMAIN futures'
    /\ futures[k].st = "done" /\ futures'[k].st = "collected"

\* C22: Single-writer shared state. During a parallel evaluation a step of a
\* worker changes only its own future: the match counter, the failed list, the
\* returned result and the loop's best prompt, best quality and history are left
\* as they are. The counter and the failed list change only in a step of the
\* controlling thread, which accounts for exactly the one completed result it
\* takes, so no update is lost.
SingleWriter ==
    [][ /\ \A k \in CaseIndices :
            WorkerStep(k) =>
                /\ UNCHANGED <<successful_matches, failed_cases, ev_result, lp>>
                /\ \A j \in DOMAIN futures \ {k} : futures'[j] = futures[j]
        /\ (ev_path = "parallel" /\
              (successful_matches' # successful_matches \/ failed_cases' # failed_cases)) =>
                \E k \in CaseIndices :
                    /\ ControllerStep(k)
                    /\ futures[k].res = WorkerResult(k)
                    /\ IF WorkerResult(k)[1]
                       THEN /\ successful_matches' = successful_matches + 1
                            /\ failed_cases' = failed_cases
                       ELSE /\ successful_matches' = successful_matches
                            /\ failed_cases' = Append(failed_cases, WorkerFailedCase(k))
      ]_vars

\* a worker is busy while a completed match waits for the controller, which has
\* counted another match before
SingleWriterWitness ==
    /\ ev_pc = "collect"
    /\ Running # {}
    /\ \E k \in DOMAIN futures : futures[k].st = "done" /\ futures[k].res[1]
    /\ \E k \in DOMAIN futures : futures[k].st = "collected" /\ futures[k].res[1]
    /\ successful_matches = 1

-----------------------------------------------------------------------------
(* Claims about the last iteration of the loop, checked under Spec *)

Mutators == {"collect_feedback", "evolve_prompt", "optimize_prompt"}

\* the mutator calls are made in iterations that did not converge
MutationOnlyIfNotConverged ==
    lp.pc \in {"mutate", "patch"} => lp.successful_matches # lp.total_tests

\* C23: Mutation only if not converged and iterations remain. No mutator
\* (optimize_prompt, collect_feedback, evolve_prompt) is called in the iteration
\* whose number equals max_iterations, so that every prompt a mutator returns is
\* evaluated by a later iteration.
MutationOnlyIfIterationsRemain ==
    lp.pc # "idle" =>
        \A i \in 1..Len(lp.calls) :
            lp.calls[i][1] \in Mutators => lp.calls[i][2] < lp.max_iterations

-----------------------------------------------------------------------------
(* Claims about the stage operations, checked under SpecOp *)

\* the gateway calls of the operation that failed
FailedCalls == {i \in 1..Len(gw_log) : gw_log[i].kind = "fail"}

\* the operation has come back to its caller
OpDone == oper.pc \in {"returned", "failed", "case_failed", "aborted"}

\* the operation was left by an exception
OpRaised == oper.pc \in {"failed", "case_failed", "aborted"}

\* what C24 claims, for one operation: a rendered call fails only after
\* max_retries + 1 failed attempts, and after fewer failures followed by a success
\* it returns the prompt extracted from that response
RetriedThroughInvoker(name) ==
    (oper.pc # "idle" /\ oper.name = name /\ oper.template_ok /\ OpDone) =>
        /\ OpRaised => Cardinality(FailedCalls) = rt_cfg.max_retries + 1
        /\ ~OpRaised =>
            /\ FailedCalls = 1..(Len(gw_log) - 1)
            /\ Len(gw_log) <= rt_cfg.max_retries + 1
            /\ oper.result = Trimmed(gw_log[Len(gw_log)].text)

\* generate_initial_prompt and optimize_prompt do call the model through _call_llm
BootstrapAndPatchRetried ==
    RetriedThroughInvoker("generate_initial_prompt") /\ RetriedThroughInvoker("optimize_prompt")

\* C24: Each of the three mutator operations generate_initial_prompt (bootstrap),
\* optimize_prompt (patch) and evolve_prompt (rewrite) calls the model with
\* retries: it fails only after max_retries + 1 failed attempts, and when fewer
\* attempts fail and the next succeeds it returns the extracted prompt.
MutatorsRetried ==
    /\ RetriedThroughInvoker("generate_initial_prompt")
    /\ RetriedThroughInvoker("optimize_prompt")
    /\ RetriedThroughInvoker("evolve_prompt")

\* a template error is raised before any gateway call, is not retried, and ends
\* the run for the operations create_golden_prompt calls itself
TemplateErrorBeforeGateway ==
    (oper.pc # "idle" /\ ~oper.template_ok) =>
        /\ gw_log = <<>> /\ sleeps = <<>> /\ rt_pc = "idle"
        /\ oper.pc \in {"call", "failed", "case_failed", "aborted"}
        /\ (oper.pc = "aborted") => oper.name # "generate_answer"
        /\ (oper.name # "generate_answer") => oper.pc # "case_failed"

\* C25: A template binding error aborts the run. For every operation that
\* renders a template (generate_initial_prompt, optimize_prompt, evolve_prompt,
\* collect_feedback, generate_answer during case evaluation) a placeholder
\* without value ends the run with the error surfaced to the caller, without a
\* retry and without a gateway call.
TemplateErrorAborts ==
    (oper.pc # "idle" /\ ~oper.template_ok) =>
        /\ gw_log = <<>> /\ sleeps = <<>>
        /\ oper.pc \in {"call", "failed", "aborted"}

-----------------------------------------------------------------------------
(* Claims about calculate_quality_score, checked under SpecQuality *)

\* the metrics are those of the counts the evaluation returned
QualityFromEvaluation ==
    qs.pc = "returned" =>
        /\ qs.successful_cases = ev_result[1] /\ qs.total_cases = Len(test_data)
        /\ qs.success_rate = SuccessRate(ev_result[1], Len(test_data))
        /\ qs.overall_quality = qs.success_rate

\* C26: calculate_quality_score evaluates sequentially. For every
\* configuration, enable_parallel = true with more than 3 cases included, the
\* evaluation it runs takes the cases one at a time in dataset order and never
\* uses the worker pool.
QualityEvaluatesSequentially ==
    qs.pc \in {"evaluating", "returned"} =>
        /\ ev_path \in {"none", "sequential"}
        /\ futures = <<>>

-----------------------------------------------------------------------------
(* Claims about target_success_rate, checked under SpecTarget *)

\* the state of the run, had it been configured with the target rate t
WithTarget(l, t) == [l EXCEPT !.target_success_rate = t]

\* C27: Convergence requires a literal 100% match whatever target_success_rate
\* is. The loop leaves the scoring of an iteration as converged exactly when
\* matches = total, and every step a run takes is a step of the run that differs
\* only in its target_success_rate: under the same model responses both runs go
\* through the same evaluations and mutations and return the same prompt.
TargetRateIgnored ==
    [][ lp.pc # "idle" =>
          /\ lp'.target_success_rate = lp.target_success_rate
          /\ \A t \in TargetRates : LoopStep(WithTarget(lp, t), WithTarget(lp', t))
          /\ lp.pc = "score" =>
                (lp'.pc = "returned" <=> lp.successful_matches = lp.total_tests)
      ]_vars

\* with a target of 50 an evaluation that matches one case of two is followed by a
\* patch and another iteration, and the run later converges on two of two
TargetRateIgnoredWitness ==
    /\ lp.pc = "returned"
    /\ lp.target_success_rate = 50
    /\ lp.iteration = 2
    /\ Len(History) = 2
    /\ History[1].success_rate = 50000
    /\ lp.successful_matches = 2 /\ lp.total_tests = 2
    /\ \E i \in 1..Len(lp.calls) : lp.calls[i] = <<"optimize_prompt", 1>>

-----------------------------------------------------------------------------
(* Claims about the defensive stop of the loop, checked under Spec *)

\* the last call logged is a mutator call of the current iteration
MutatedInCurrentIteration ==
    /\ lp.calls # <<>>
    /\ lp.calls[Len(lp.calls)][1] \in Mutators
    /\ lp.calls[Len(lp.calls)][2] = lp.iteration

\* C28: The defensive stop is unreachable for a non-empty dataset. Whenever an
\* evaluation of the loop has returned with total > 0 and matches # total, its
\* failed list is not empty; so an iteration on the local path always calls
\* optimize_prompt, and the run never returns through the branch "no failing
\* cases but not converged": a run that returns without convergence has called a
\* mutator in its last iteration, the one numbered max_iterations.
DefensiveStopUnreachable ==
    /\ (lp.pc \in {"score", "mutate", "patch"} /\ lp.total_tests > 0
          /\ lp.successful_matches # lp.total_tests) => lp.failed_cases # <<>>
    /\ (lp.pc = "mutate" /\ ~(lp.iteration % 3 = 0 /\ lp.iteration > 2)) =>
          /\ lp.failed_cases # <<>>
          /\ ENABLED Optimize
    /\ (lp.pc = "returned" /\ lp.iteration > 0 /\ lp.successful_matches # lp.total_tests) =>
          /\ lp.iteration = lp.max_iterations
          /\ MutatedInCurrentIteration

\* the patch call of an iteration in which one case of two failed
DefensiveStopUnreachableWitness ==
    /\ lp.pc = "patch"
    /\ lp.total_tests = 2
    /\ lp.successful_matches = 1
    /\ Len(lp.failed_cases) = 1
    /\ lp.calls[Len(lp.calls)] = <<"optimize_prompt", lp.iteration>>

-----------------------------------------------------------------------------
(* Claims about rows that carry a reason, checked under Spec *)

\* some row of the dataset carries a reason
SomeReason == \E i \in 1..Len(test_data) : Len(test_data[i]) = 3

\* where no row carries a reason the run is never left by an unpacking error
PairsNeverBreak ==
    (lp.pc = "raised" /\ ~SomeReason) => lp.raised_by[1] # "unpack"

\* C29: The optional reason never breaks the core. For a dataset in which some
\* rows carry a reason, generate_initial_prompt is called on the input and the
\* expected output of the first row, every evaluation returns counts that account
\* for every row, and the run is never left by an error raised because a reason
\* is present.
ReasonNeverBreaks ==
    (lp.pc # "idle" /\ SomeReason) =>
        /\ lp.pc # "start" => lp.calls # <<>> /\ lp.calls[1] = <<"generate_initial_prompt", 0>>
        /\ lp.pc = "raised" => lp.raised_by[1] # "unpack"
        /\ lp.pc \in {"score", "mutate", "patch", "returned"} =>
              lp.successful_matches + Len(lp.failed_cases) = Len(test_data)

-----------------------------------------------------------------------------
(* Claims about the counts an evaluation returns, checked under SpecEval *)

\* the failed cases returned for the dataset row <<input, expected>>
FailedEntriesOf(row) ==
    {i \in 1..Len(ev_result[3]) :
        ev_result[3][i][1] = row[1] /\ ev_result[3][i][2] = row[2]}

\* the cases of the dataset with that row that did not match
MismatchesOf(row) == {k \in MismatchedCases : test_data[k + 1] = row}

\* C30: Count conservation. Every evaluation that returns, in sequential mode, in
\* parallel mode and after a fallback, returns match_count + number of failed
\* cases = total_count = size of the dataset with 0 <= match_count <= total_count,
\* and every case is accounted for exactly once: as one of the matches counted or
\* as one entry of the failed list.
CountConservation ==
    Returned =>
        /\ ev_path \in {"sequential", "parallel", "fallback"}
        /\ ev_result[2] = Len(test_data)
        /\ ev_result[1] + Len(ev_result[3]) = ev_result[2]
        /\ 0 <= ev_result[1] /\ ev_result[1] <= ev_result[2]
        /\ ev_result[1] = Cardinality(CaseIndices \ MismatchedCases)
        /\ \A k \in CaseIndices :
              Cardinality(FailedEntriesOf(test_data[k + 1])) =
                  Cardinality(MismatchesOf(test_data[k + 1]))

\* a parallel evaluation of four cases in two batches returns with matches and
\* failed cases, the first row and its repetition falling on different sides
CountConservationWitness ==
    /\ Returned
    /\ ev_path = "parallel"
    /\ Len(test_data) = 4
    /\ batch_idx = 1
    /\ ev_result[1] = 2
    /\ Len(ev_result[3]) = 2

\* the same counts after the pool has failed in the second batch
CountConservationFallbackWitness ==
    /\ Returned
    /\ ev_path = "fallback"
    /\ batch_idx = 1
    /\ successful_matches > 0
    /\ ev_result[1] + Len(ev_result[3]) = 4

=============================================================================
